---- MODULE Spec2Model ----
(***************************************************************************)
(* Verification model of the Vienna Vulkan Engine core:                    *)
(*   - the scene graph (VESceneNode, VEEntity.cpp),                        *)
(*   - the scene manager's light list, asset tables and node table         *)
(*     (VESceneManager.cpp),                                               *)
(*   - the lights' shadow cameras (VEDirectionalLight, VEEntity.cpp),      *)
(*   - the forward renderer's frame loop and command-buffer recording      *)
(*     (VERendererForward.cpp).                                            *)
(* Each subsystem has its own specification over the shared variables.     *)
(***************************************************************************)
EXTENDS Integers, Sequences, FiniteSets, TLC

(***************************************************************************)
(* Bounds of the model.                                                    *)
(***************************************************************************)
\* number of scene nodes that can be constructed by direct constructor calls
MaxNodes == 3

\* number of lights that can be constructed
MaxLights == 2

\* number of scene nodes that loadModel calls can construct
MaxLoadNodes == 6

\* greatest length of the active light list (switchOnLight is not called on a
\* list of this length)
MaxActive == 2

\* number of asset files on disk
MaxFiles == 2

\* number of images of the swapchain
NumImages == 2

\* a null pointer (nullptr / VK_NULL_HANDLE)
Null == 0

VARIABLES
    \* ---- scene graph (VESceneNode) ----
    nodes,          \* the scene nodes constructed so far
    m_parent,       \* VESceneNode::m_parent, Null for none
    m_children,     \* VESceneNode::m_children, a vector of node pointers
    m_transform,    \* VESceneNode::m_transform, local to parent
    m_name,         \* VENamedClass::m_name, a string (sequence of tokens)
    lastOp,         \* the operation that ran last and its arguments
    \* ---- lights and scene manager ----
    lightType,      \* class of each node: "dir", "point", "spot" or "node"
    m_shadowCameras,\* VELight::m_shadowCameras, a vector of camera objects
    m_lights,       \* VESceneManager::m_lights, the active light list
    m_sceneNodes,   \* VESceneManager::m_sceneNodes, a map from names to nodes
    deleted,        \* the scene nodes that were freed with delete
    nextCam,        \* the next camera object the allocator hands out
    \* ---- meshes, materials and entities ----
    m_meshes,       \* VESceneManager::m_meshes, a map from names to meshes
    m_materials,    \* VESceneManager::m_materials, from names to materials
    nextMesh,       \* the next VEMesh object the allocator hands out
    nextMaterial,   \* the next VEMaterial object the allocator hands out
    m_pMesh,        \* VEEntity::m_pMesh of the nodes that are entities
    m_pMaterial,    \* VEEntity::m_pMaterial
    firstResult,    \* what the first successful load of each file returned
    \* ---- the forward renderer ----
    pc,                     \* the call the render loop makes next
    m_currentFrame,         \* VERendererForward::m_currentFrame
    imageIndex,             \* VERendererForward::imageIndex
    m_commandBuffers,       \* one command buffer handle per swapchain image
    m_inFlightFences,       \* per frame in flight: TRUE when signaled
    m_framebufferResized,   \* the window size changed
    recordCount,    \* per image: recordCmdBuffers calls since the slots
                    \* were last emptied (counted up to 2)
    unobserved,     \* per image: the frame in flight (plus 1) whose fence the
                    \* last submission of its command buffer signals, until
                    \* the CPU has waited on that fence; else Null
    everRecreated,  \* recreateSwapchain has run
    recordedLights, \* per image: the list of lights that the command buffer
                    \* of its slot was recorded from (<<>> for an empty slot)
    m_end_running,          \* VEEngine::m_end_running
    m_subrenderOverlay,     \* the overlay sub-renderer, or Null
    m_overlaySemaphores,    \* per frame in flight: what presentFrame waits on
    submittedThisFrame,     \* drawFrame submitted in the current tick
    \* ---- the GLFW event listener (VEEventListenerGLFW) ----
    m_rightButtonClicked,   \* the listener's note of the right mouse button
    m_usePrevCursorPosition,\* m_cursorPrevX, m_cursorPrevY may be used
    m_cursorPrevX,          \* the cursor position of the last mouse move
    m_cursorPrevY,
    buttonsHeld,    \* the mouse buttons that are down at the window
    movesSinceButton,       \* mouse moves with the right button down since
                            \* the last press or release (counted up to 2)
    m_makeScreenshot,       \* key P was pressed: a colour screenshot is due
    m_makeScreenshotDepth,  \* key O was pressed: a depth screenshot is due
    m_numScreenshot,        \* the number of the next screenshot file
    poolTasks,      \* the tasks submitted to VEEngine::m_threadPool that have
                    \* not run yet, each with its request
    written,        \* the screenshot files written: request and file number
    housesLeft,     \* the left row of houses, a vector of house nodes
    housesRight,    \* the right row of houses
    housePos,       \* the translation set on each house node
    zOffsetS,       \* the z at which the next house is put in front
    distanceTraveledSinceLastMove,
    houseNamesID    \* the number in the name of the next house

treeVars == <<nodes, m_parent, m_children, m_transform, m_name, lastOp>>

lightVars == <<lightType, m_shadowCameras, m_lights, m_sceneNodes, nextCam>>

assetVars == <<m_meshes, m_materials, nextMesh, nextMaterial, m_pMesh,
               m_pMaterial, firstResult>>

\* the variables outside the scene graph and the lights
renderVars == <<pc, m_currentFrame, imageIndex, m_commandBuffers,
                m_inFlightFences, m_framebufferResized, recordCount,
                unobserved, everRecreated, recordedLights, m_end_running,
                m_subrenderOverlay, m_overlaySemaphores, submittedThisFrame>>

mouseVars == <<m_rightButtonClicked, m_usePrevCursorPosition,
               m_cursorPrevX, m_cursorPrevY, buttonsHeld, movesSinceButton>>

shotVars == <<m_makeScreenshot, m_makeScreenshotDepth, m_numScreenshot,
              poolTasks, written>>

houseVars == <<housesLeft, housesRight, housePos, zOffsetS,
               distanceTraveledSinceLastMove, houseNamesID>>

listenerVars == <<mouseVars, shotVars, houseVars>>

\* the heap: which of the constructed objects are freed
heapVars == <<deleted>>

restVars == <<assetVars, renderVars, listenerVars, heapVars>>

vars == <<treeVars, lightVars, restVars>>

\* the heap objects that can stand for scene nodes
NodeIds == 1..(MaxNodes + MaxLights + MaxLoadNodes)

(***************************************************************************)
(* Strings are sequences of tokens, so that operator+ is concatenation.    *)
(* std::map is a function whose domain is the set of keys present;         *)
(* operator[] on an absent key yields a null pointer.                      *)
(***************************************************************************)
EmptyMap == [k \in {} |-> Null]

Lookup(map, key) == IF key \in DOMAIN map THEN map[key] ELSE Null

Store(map, key, value) ==
    [k \in (DOMAIN map) \cup {key} |-> IF k = key THEN value ELSE map[k]]

\* the name given to the object with number n where the caller's choice of
\* name does not matter
ObjectName(n) == <<"node", ToString(n)>>

(***************************************************************************)
(* Transforms.  glm::mat4 is modelled by 2x2 matrices over the integers    *)
(* modulo 2, <<a, b, c, d>> standing for the rows (a b) and (c d).  The    *)
(* product is the matrix product, which is associative and not             *)
(* commutative, the two properties the parent-chain fold depends on.       *)
(***************************************************************************)
Mul(x, y) ==
    << (x[1] * y[1] + x[2] * y[3]) % 2, (x[1] * y[2] + x[2] * y[4]) % 2,
       (x[3] * y[1] + x[4] * y[3]) % 2, (x[3] * y[2] + x[4] * y[4]) % 2 >>

Identity == <<1, 0, 0, 1>>
Shear    == <<1, 1, 0, 1>>
Swap     == <<0, 1, 1, 0>>

\* the transforms callers pass to the constructor, setTransform and
\* multiplyTransform
TransfInputs == {Identity, Shear, Swap}

(***************************************************************************)
(* Helpers on std::vector                                                  *)
(***************************************************************************)
InSeq(x, s) == \E i \in 1..Len(s) : s[i] = x

Count(x, s) == Cardinality({i \in 1..Len(s) : s[i] = x})

\* the vector without its last element (pop_back)
PopBack(s) == SubSeq(s, 1, Len(s) - 1)

\* index of the first occurrence of x in s, 0 if there is none
FirstIndex(x, s) ==
    IF InSeq(x, s) THEN CHOOSE i \in 1..Len(s) :
                            s[i] = x /\ \A j \in 1..(i - 1) : s[j] # x
    ELSE 0

(***************************************************************************)
(* VESceneNode::removeChild: the first occurrence of the child is          *)
(* overwritten with the last child and the vector is shortened; the        *)
(* child's m_parent is not touched.                                        *)
(***************************************************************************)
RemoveChildList(list, pEntity) ==
    LET i == FirstIndex(pEntity, list) IN
    IF i = 0 THEN list
    ELSE PopBack([list EXCEPT ![i] = list[Len(list)]])

(***************************************************************************)
(* VESceneNode::addChild(pObject) called on node this: the child is        *)
(* removed from its present parent's list (if m_parent is set), its        *)
(* m_parent becomes this and it is appended to this->m_children.           *)
(* par is the value of m_parent at the call; ch the child lists.           *)
(***************************************************************************)
\* addChild without the detach from the present parent
AddChildLists_NoDetach(ch, par, this, pObject) ==
    [ch EXCEPT ![this] = Append(ch[this], pObject)]

AddChildLists(ch, par, this, pObject) ==
    LET detached == IF par[pObject] # Null
                    THEN [ch EXCEPT ![par[pObject]] =
                              RemoveChildList(ch[par[pObject]], pObject)]
                    ELSE ch
    IN [detached EXCEPT ![this] = Append(detached[this], pObject)]

AddChildParents(par, this, pObject) == [par EXCEPT ![pObject] = this]

(***************************************************************************)
(* VESceneNode::getWorldTransform: the recursion up the m_parent chain.    *)
(* The C++ recursion has no cycle guard; a chain longer than the number of *)
(* nodes can only be a cycle, on which the call never returns (the stack   *)
(* overflows): the model returns NoReturn there.                           *)
(***************************************************************************)
NoReturn == <<>>

RECURSIVE WorldRec(_, _, _, _)
WorldRec(par, tr, n, fuel) ==
    IF par[n] # Null
    THEN IF fuel = 0 THEN NoReturn
         ELSE LET up == WorldRec(par, tr, par[n], fuel - 1) IN
              IF up = NoReturn THEN NoReturn ELSE Mul(up, tr[n])
    ELSE tr[n]

getWorldTransform(n) ==
    WorldRec(m_parent, m_transform, n, Cardinality(NodeIds))

getTransform(n) == m_transform[n]

(***************************************************************************)
(* Initial state: no node constructed yet.                                 *)
(***************************************************************************)
TreeInitVars ==
    /\ nodes = {}
    /\ m_parent = [n \in NodeIds |-> Null]
    /\ m_children = [n \in NodeIds |-> <<>>]
    /\ m_transform = [n \in NodeIds |-> Identity]
    /\ m_name = [n \in NodeIds |-> <<>>]
    /\ lastOp = [op |-> "init"]

\* the next object the allocator hands out
Fresh == Cardinality(nodes) + 1

(***************************************************************************)
(* VESceneNode::VESceneNode(name, transf, parent): m_parent = parent, then *)
(* parent->addChild(this) if there is a parent, then setTransform(transf). *)
(***************************************************************************)
\* The fields of all scene nodes as one value T, and the constructor as a
\* function on it: the new object is the next one after those of T.
TreeState ==
    [nodes |-> nodes, par |-> m_parent, ch |-> m_children,
     tr |-> m_transform, name |-> m_name]

NextObject(T) == Cardinality(T.nodes) + 1

Constructed(T, name, parent, transf) ==
    LET this == NextObject(T)
        par0 == [T.par EXCEPT ![this] = parent]
    IN [nodes |-> T.nodes \cup {this},
        par   |-> IF parent # Null THEN AddChildParents(par0, parent, this)
                  ELSE par0,
        ch    |-> IF parent # Null
                  THEN AddChildLists(T.ch, par0, parent, this)
                  ELSE T.ch,
        tr    |-> [T.tr EXCEPT ![this] = transf],
        name  |-> [T.name EXCEPT ![this] = name]]

SetTree(T) ==
    /\ nodes' = T.nodes
    /\ m_parent' = T.par
    /\ m_children' = T.ch
    /\ m_transform' = T.tr
    /\ m_name' = T.name

NewSceneNodeOp(name, parent, transf) ==
    /\ Fresh \in NodeIds
    /\ SetTree(Constructed(TreeState, name, parent, transf))
    /\ lastOp' = [op |-> "new", node |-> Fresh, parent |-> parent]

NewSceneNode(parent, transf) ==
    /\ Fresh <= MaxNodes
    /\ NewSceneNodeOp(ObjectName(Fresh), parent, transf)
    /\ UNCHANGED <<lightVars, restVars>>

(***************************************************************************)
(* this->addChild(pObject)                                                 *)
(***************************************************************************)
AddChild(this, pObject) ==
    /\ m_children' = AddChildLists(m_children, m_parent, this, pObject)
    /\ m_parent' = AddChildParents(m_parent, this, pObject)
    /\ lastOp' = [op |-> "addChild", node |-> pObject, parent |-> this,
                  oldParent |-> m_parent[pObject]]
    /\ UNCHANGED <<nodes, m_transform, m_name>>
    /\ UNCHANGED <<lightVars, restVars>>

(***************************************************************************)
(* setTransform / multiplyTransform                                        *)
(***************************************************************************)
SetTransformValue(tr, n, trans) == [tr EXCEPT ![n] = trans]

MultiplyTransformValue(tr, n, trans) ==
    SetTransformValue(tr, n, Mul(trans, tr[n]))

SetTransform(n, trans) ==
    /\ m_transform' = SetTransformValue(m_transform, n, trans)
    /\ lastOp' = [op |-> "setTransform"]
    /\ UNCHANGED <<nodes, m_parent, m_children, m_name>>
    /\ UNCHANGED <<lightVars, restVars>>

MultiplyTransform(n, trans) ==
    /\ m_transform' = MultiplyTransformValue(m_transform, n, trans)
    /\ lastOp' = [op |-> "multiplyTransform"]
    /\ UNCHANGED <<nodes, m_parent, m_children, m_name>>
    /\ UNCHANGED <<lightVars, restVars>>

(***************************************************************************)
(* Lights (VELight and its subclasses) and the scene manager's light list  *)
(***************************************************************************)
LightTypes == {"dir", "point", "spot"}

\* number of shadow cameras the constructors create
NumCascadesDir == 4
NumCamsPoint   == 6
NumCamsSpot    == 1

NumShadowCams(type) ==
    CASE type = "dir"   -> NumCascadesDir
      [] type = "point" -> NumCamsPoint
      [] type = "spot"  -> NumCamsSpot

\* Fractions of the viewer frustum are kept in hundredths: 0.05f is 5.
\* m_nearPlaneFraction and m_farPlaneFraction of a camera that was
\* constructed without them.
DefaultNearFraction == 0
DefaultFarFraction == 100

\* the vector of shadow cameras a light constructor builds: n new camera
\* objects, numbered from first
NewShadowCameras(first, n) ==
    [i \in 1..n |-> [obj |-> first + i - 1,
                     m_nearPlaneFraction |-> DefaultNearFraction,
                     m_farPlaneFraction |-> DefaultFarFraction]]

\* std::vector<float> limits of VEDirectionalLight::updateShadowCameras
\* with a gap between the second and the third cascade
LimitsDir_Gap == <<0, 5, 20, 50, 100>>

\* std::vector<float> limits of VEDirectionalLight::updateShadowCameras
LimitsDir == <<0, 5, 15, 50, 100>>

\* std::vector<float> limits of VESpotLight::updateShadowCameras
LimitsSpot == <<0, 100>>

\* the loop of the directional and the spot light: camera i gets the
\* fractions limits[i] and limits[i+1] (C++ indices from 0)
SetFractions(cams, limits) ==
    [i \in 1..Len(cams) |->
        [cams[i] EXCEPT !.m_nearPlaneFraction = limits[i],
                        !.m_farPlaneFraction = limits[i + 1]]]

\* the loop of the point light: every camera covers the whole range
SetFractionsPoint(cams) ==
    [i \in 1..Len(cams) |->
        [cams[i] EXCEPT !.m_nearPlaneFraction = 0,
                        !.m_farPlaneFraction = 100]]

\* updateShadowCameras of the three light classes, on the camera vector.
\* The width, height, planes and transforms the functions also write are
\* floating-point geometry and are not part of the model.
UpdatedShadowCameras(type, cams) ==
    CASE type = "dir"   -> SetFractions(cams, LimitsDir)
      [] type = "point" -> SetFractionsPoint(cams)
      [] type = "spot"  -> SetFractions(cams, LimitsSpot)

\* VESceneManager::addSceneNode: the node is entered into the node table
\* under its name
addSceneNode(table, name, n) == Store(table, name, n)

\* switchOnLight: push_back
SwitchedOn(list, light) == Append(list, light)

\* The loop of switchOffLight from index i (from 1 here): on a match the
\* slot is overwritten with the last light and the vector shortened, and the
\* loop goes on with the next index.
RECURSIVE SwitchOffLoop(_, _, _)
SwitchOffLoop(list, light, i) ==
    IF i > Len(list) THEN list
    ELSE IF list[i] = light
         THEN SwitchOffLoop(PopBack([list EXCEPT ![i] = list[Len(list)]]),
                            light, i + 1)
         ELSE SwitchOffLoop(list, light, i + 1)

SwitchedOff(list, light) == SwitchOffLoop(list, light, 1)

lights == {n \in nodes : lightType[n] \in LightTypes}

LightInitVars ==
    /\ lightType = [n \in NodeIds |-> "node"]
    /\ m_shadowCameras = [n \in NodeIds |-> <<>>]
    /\ m_lights = <<>>
    /\ m_sceneNodes = EmptyMap
    /\ nextCam = 1

(***************************************************************************)
(* A light is created as in initSceneManager: new VE...Light(name) with    *)
(* the VESceneNode constructor and the shadow cameras of its class, then   *)
(* addSceneNode(light).                                                    *)
(***************************************************************************)
CreateLight(type, parent) ==
    /\ Fresh <= MaxLights
    /\ NewSceneNodeOp(ObjectName(Fresh), parent, Identity)
    /\ lightType' = [lightType EXCEPT ![Fresh] = type]
    /\ m_shadowCameras' = [m_shadowCameras EXCEPT ![Fresh] =
                               NewShadowCameras(nextCam, NumShadowCams(type))]
    /\ nextCam' = nextCam + NumShadowCams(type)
    /\ m_sceneNodes' = addSceneNode(m_sceneNodes, ObjectName(Fresh), Fresh)
    /\ UNCHANGED <<m_lights, restVars>>

SwitchOnLight(light) ==
    /\ Len(m_lights) < MaxActive
    /\ m_lights' = SwitchedOn(m_lights, light)
    /\ lastOp' = [op |-> "switchOnLight", node |-> light]
    /\ UNCHANGED <<nodes, m_parent, m_children, m_transform, m_name>>
    /\ UNCHANGED <<lightType, m_shadowCameras, m_sceneNodes, nextCam, restVars>>

SwitchOffLight(light) ==
    /\ m_lights' = SwitchedOff(m_lights, light)
    /\ lastOp' = [op |-> "switchOffLight", node |-> light]
    /\ UNCHANGED <<nodes, m_parent, m_children, m_transform, m_name>>
    /\ UNCHANGED <<lightType, m_shadowCameras, m_sceneNodes, nextCam, restVars>>

\* light->updateShadowCameras(pCamera, imageIndex), called by VELight::updateUBO
UpdateShadowCameras(light) ==
    /\ m_shadowCameras' = [m_shadowCameras EXCEPT ![light] =
            UpdatedShadowCameras(lightType[light], m_shadowCameras[light])]
    /\ lastOp' = [op |-> "updateShadowCameras", node |-> light]
    /\ UNCHANGED <<nodes, m_parent, m_children, m_transform, m_name>>
    /\ UNCHANGED <<lightType, m_lights, m_sceneNodes, nextCam, restVars>>

(***************************************************************************)
(* Asset loading (VESceneManager::loadAssets, loadModel)                   *)
(***************************************************************************)
Files == 1..MaxFiles

\* the directory and the file names the callers pass
BaseDir == <<"models">>
FileName(f) == <<ToString(f)>>

\* What Assimp's importer.ReadFile returns for file f: the global mesh list
\* (names, material index of each mesh), the global material list (names) and
\* a root node with its name, its transformation and its mesh indices (from
\* 0), without child nodes.  Files with an odd number hold two meshes of the
\* same name, the others two meshes of different names and a material
\* without name.
AiScene(f) ==
    IF f % 2 = 1
    THEN [meshNames |-> << <<"cube">>, <<"cube">> >>,
          meshMaterial |-> <<0, 0>>,
          materialNames |-> << <<"mat">> >>,
          rootName |-> <<"root">>, rootTransformation |-> Shear,
          rootMeshes |-> <<0>>]
    ELSE [meshNames |-> << <<"cube">>, <<"plane">> >>,
          meshMaterial |-> <<0, 1>>,
          materialNames |-> << <<"mat">>, <<>> >>,
          rootName |-> <<"root">>, rootTransformation |-> Swap,
          rootMeshes |-> <<0, 1>>]

\* std::string filekey = basedir + "/" + filename, and the keys of the mesh
\* and the material table, filekey + "/" + name
Slash(a, b) == a \o <<"/">> \o b

\* createMeshes that creates a VEMesh for every mesh of the file without
\* looking into the table
RECURSIVE CreateMeshesLoop_NoLookup(_, _, _, _)
CreateMeshesLoop_NoLookup(st, names, filekey, i) ==
    IF i > Len(names) THEN st
    ELSE CreateMeshesLoop_NoLookup(
             [table |-> Store(st.table, Slash(filekey, names[i]), st.next),
              next  |-> st.next + 1,
              out   |-> Append(st.out, st.next)], names, filekey, i + 1)

\* The loop of createMeshes from mesh i (from 1 here).  st holds the table,
\* the next object to allocate and the output vector.
RECURSIVE CreateMeshesLoop(_, _, _, _)
CreateMeshesLoop(st, names, filekey, i) ==
    IF i > Len(names) THEN st
    ELSE LET name == Slash(filekey, names[i])
             pMesh == Lookup(st.table, name)
         IN IF pMesh = Null
            THEN CreateMeshesLoop(
                     [table |-> Store(st.table, name, st.next),
                      next  |-> st.next + 1,
                      out   |-> Append(st.out, st.next)],
                     names, filekey, i + 1)
            ELSE CreateMeshesLoop(
                     [st EXCEPT !.out = Append(st.out, pMesh)],
                     names, filekey, i + 1)

createMeshes(table, next, pScene, filekey) ==
    CreateMeshesLoop([table |-> table, next |-> next, out |-> <<>>],
                     pScene.meshNames, filekey, 1)

\* The loop of createMaterials.  The textures a new material loads are
\* GPU resources and are not part of the model.
RECURSIVE CreateMaterialsLoop(_, _, _, _)
CreateMaterialsLoop(st, names, filekey, i) ==
    IF i > Len(names) THEN st
    ELSE LET name == Slash(filekey, names[i])
             pMat == Lookup(st.table, name)
         IN IF pMat = Null
            THEN CreateMaterialsLoop(
                     [table |-> Store(st.table, name, st.next),
                      next  |-> st.next + 1,
                      out   |-> Append(st.out, st.next)],
                     names, filekey, i + 1)
            ELSE CreateMaterialsLoop(
                     [st EXCEPT !.out = Append(st.out, pMat)],
                     names, filekey, i + 1)

createMaterials(table, next, pScene, filekey) ==
    CreateMaterialsLoop([table |-> table, next |-> next, out |-> <<>>],
                        pScene.materialNames, filekey, 1)

AssetInitVars ==
    /\ m_meshes = EmptyMap
    /\ m_materials = EmptyMap
    /\ nextMesh = 1
    /\ nextMaterial = 1
    /\ m_pMesh = [n \in NodeIds |-> Null]
    /\ m_pMaterial = [n \in NodeIds |-> Null]
    /\ firstResult = EmptyMap

\* the part loadAssets and loadModel share: createMeshes, createMaterials
\* on the scene of file f; the record of the call is kept in lastOp
LoadTables(op, f) ==
    LET filekey == Slash(BaseDir, FileName(f))
        me == createMeshes(m_meshes, nextMesh, AiScene(f), filekey)
        ma == createMaterials(m_materials, nextMaterial, AiScene(f), filekey)
        result == [meshes |-> me.out, materials |-> ma.out]
    IN /\ m_meshes' = me.table
       /\ nextMesh' = me.next
       /\ m_materials' = ma.table
       /\ nextMaterial' = ma.next
       /\ firstResult' = IF f \in DOMAIN firstResult THEN firstResult
                         ELSE Store(firstResult, f, result)
       /\ lastOp' = [op |-> op, file |-> f, failed |-> FALSE,
                     result |-> result,
                     again |-> f \in DOMAIN firstResult,
                     created |-> (me.next - nextMesh) + (ma.next - nextMaterial)]

\* importer.ReadFile returned nullptr: the function throws before it
\* touches a table
LoadThrows(op, f) ==
    /\ lastOp' = [op |-> op, file |-> f, failed |-> TRUE]
    /\ UNCHANGED <<nodes, m_parent, m_children, m_transform, m_name>>
    /\ UNCHANGED <<lightVars, assetVars, renderVars, listenerVars,
        heapVars>>

(***************************************************************************)
(* loadAssets(basedir, filename, aiFlags, meshes, materials); readable     *)
(* tells whether the importer can read the file.                           *)
(***************************************************************************)
LoadAssets(f, readable) ==
    IF readable
    THEN /\ LoadTables("loadAssets", f)
         /\ UNCHANGED <<nodes, m_parent, m_children, m_transform, m_name>>
         /\ UNCHANGED <<lightVars, m_pMesh, m_pMaterial, renderVars,
                        listenerVars,
                            heapVars>>
    ELSE LoadThrows("loadAssets", f)

(***************************************************************************)
(* createSceneNode(objectName, transf, parent) on the tree T and the node  *)
(* table: the node registered under the name if there is one, else a new   *)
(* VESceneNode that is entered into the table.                             *)
(***************************************************************************)
createSceneNode(S, objectName, transf, parent) ==
    LET pMO == Lookup(S.table, objectName) IN
    IF pMO # Null THEN [S EXCEPT !.ret = pMO]
    ELSE LET T == Constructed(S.tree, objectName, parent, transf)
             this == NextObject(S.tree)
         IN [S EXCEPT !.tree = T,
                      !.table = addSceneNode(S.table, objectName, this),
                      !.ret = this]

\* createEntity(entityName, pMesh, pMat, transf, parent): always a new
\* VEEntity, entered into the table under its name.  The registration with
\* the sub-renderers is not part of the model.
createEntity(S, entityName, pMesh, pMat, transf, parent) ==
    LET T == Constructed(S.tree, entityName, parent, transf)
        this == NextObject(S.tree)
    IN [S EXCEPT !.tree = T,
                 !.table = addSceneNode(S.table, entityName, this),
                 !.mesh = [S.mesh EXCEPT ![this] = pMesh],
                 !.mat = [S.mat EXCEPT ![this] = pMat],
                 !.ret = this]

\* the loop of copyAiNodes over the meshes of the Assimp node, from the
\* i-th (from 1 here; the entity names count from 0)
RECURSIVE CopyMeshesLoop(_, _, _, _, _, _)
CopyMeshesLoop(S, pScene, meshes, materials, pObject, i) ==
    IF i > Len(pScene.rootMeshes) THEN S
    ELSE LET paiMeshIdx == pScene.rootMeshes[i]
             pMesh == meshes[paiMeshIdx + 1]
             pMaterial == materials[pScene.meshMaterial[paiMeshIdx + 1] + 1]
             name == S.tree.name[pObject] \o <<"/Entity_", ToString(i - 1)>>
         IN CopyMeshesLoop(
                createEntity(S, name, pMesh, pMaterial,
                             pScene.rootTransformation, pObject),
                pScene, meshes, materials, pObject, i + 1)

\* copyAiNodes for the root node of the scene (it has no child nodes)
copyAiNodes(S, pScene, meshes, materials, parent) ==
    LET S1 == createSceneNode(S, Slash(S.tree.name[parent], pScene.rootName),
                              Identity, parent)
    IN CopyMeshesLoop(S1, pScene, meshes, materials, S1.ret, 1)

\* the scene nodes loadModel builds once the tables are filled
LoadModelNodes(S, entityName, pScene, meshes, materials, parent) ==
    IF Lookup(S.table, entityName) # Null THEN S
    ELSE LET S1 == createSceneNode(S, entityName, Identity, parent)
         IN copyAiNodes(S1, pScene, meshes, materials, S1.ret)

(***************************************************************************)
(* loadModel(entityName, basedir, filename, aiFlags, parent)               *)
(***************************************************************************)
LoadModel(entityName, f, parent, readable) ==
    IF readable
    THEN /\ LoadTables("loadModel", f)
         /\ LET S0 == [tree |-> TreeState, table |-> m_sceneNodes,
                       mesh |-> m_pMesh, mat |-> m_pMaterial, ret |-> Null]
                S == LoadModelNodes(S0, entityName, AiScene(f),
                                    lastOp'.result.meshes,
                                    lastOp'.result.materials, parent)
            IN /\ Cardinality(S.tree.nodes) <= MaxLoadNodes
               /\ SetTree(S.tree)
               /\ m_sceneNodes' = S.table
               /\ m_pMesh' = S.mesh
               /\ m_pMaterial' = S.mat
         /\ UNCHANGED <<lightType, m_shadowCameras, m_lights, nextCam>>
         /\ UNCHANGED <<renderVars, listenerVars,
             heapVars>>
    ELSE LoadThrows("loadModel", f)

\* the names the callers give to the models they load
EntityNames == { <<"e">>, <<"f">> }

(***************************************************************************)
(* The forward renderer (VERendererForward)                                *)
(***************************************************************************)
MAX_FRAMES_IN_FLIGHT == 2

\* the frames in flight and the swapchain images, counted from 0
Frames == 0..(MAX_FRAMES_IN_FLIGHT - 1)
Images == 0..(NumImages - 1)

\* the handle vhCmdCreateCommandBuffers returns for the slot of an image
NewCommandBuffer(image) == image + 1

\* what vkAcquireNextImageKHR and vhRenderPresentResult can return
VkResults == {"VK_SUCCESS", "VK_SUBOPTIMAL_KHR", "VK_ERROR_OUT_OF_DATE_KHR",
              "VK_ERROR_DEVICE_LOST"}

\* a command of a command buffer: the begin of a render pass, a draw of the
\* shadow sub-renderer, or the end of a render pass.  light is the index of
\* the light in the list of lights, target the index of the shadow
\* framebuffer of the image (-1: the framebuffer of the swapchain image).
Cmd(cmd, pass, light, target) ==
    [cmd |-> cmd, pass |-> pass, light |-> light, target |-> target,
     sub |-> "none"]

\* pSub->draw(m_commandBuffers[imageIndex], imageIndex, i, ...) inside the
\* pass of kind pass of light i
Draw(sub, pass, light, target) ==
    [cmd |-> "draw", pass |-> pass, light |-> light, target |-> target,
     sub |-> sub]

\* the sub-renderers createSubrenderers registers, in its order; the
\* shadow and the overlay sub-renderer are kept in m_subrenderShadow and
\* m_subrenderOverlay
m_subrenderers == << "C1", "D", "DN", "Cubemap", "Cubemap2", "Skyplane" >>

\* the sub-renderers of the background class besides the skyplane
BackgroundTypes == {"Cubemap", "Cubemap2"}

getClass(sub) ==
    IF sub = "Skyplane" \/ sub \in BackgroundTypes
        THEN "VE_SUBRENDERER_CLASS_BACKGROUND"
        ELSE "VE_SUBRENDERER_CLASS_OBJECT"

\* the shadow passes of light i from shadow camera j on (both from 0)
RECURSIVE ShadowPasses(_, _, _)
ShadowPasses(i, cams, j) ==
    IF j >= Len(cams) THEN <<>>
    ELSE << Cmd("begin", "shadow", i, j),
            Draw("Shadow", "shadow", i, j),
            Cmd("end", "shadow", i, j) >> \o ShadowPasses(i, cams, j + 1)

\* a light pass that clears the render target for every light
LightRenderPass_AlwaysClear(i) == "clear"

\* i == 0 ? m_renderPassClear : m_renderPassLoad
LightRenderPass(i) == IF i = 0 THEN "clear" ELSE "load"

\* a light pass in which every sub-renderer draws for every light
DrawsInLightPass_NoFilter(i, sub) == TRUE

\* i == 0 || pSub->getClass() == VE_SUBRENDERER_CLASS_OBJECT
DrawsInLightPass(i, sub) ==
    i = 0 \/ getClass(sub) = "VE_SUBRENDERER_CLASS_OBJECT"

\* the loop over m_subrenderers in the light pass of light i, from
\* position k on
RECURSIVE SubrenderDraws(_, _)
SubrenderDraws(i, k) ==
    IF k > Len(m_subrenderers) THEN <<>>
    ELSE (IF DrawsInLightPass(i, m_subrenderers[k])
              THEN << Draw(m_subrenderers[k], LightRenderPass(i), i, -1) >>
              ELSE <<>>) \o SubrenderDraws(i, k + 1)

LightPass(i) ==
    << Cmd("begin", LightRenderPass(i), i, -1) >>
        \o SubrenderDraws(i, 1)
        \o << Cmd("end", LightRenderPass(i), i, -1) >>

\* the body of the loop over the lights with the light pass first
RecordLight_LightPassFirst(i, cams) ==
    LightPass(i) \o ShadowPasses(i, cams, 0)

\* the body of the loop over the lights: shadow passes, then the light pass
RecordLight(i, cams) ==
    ShadowPasses(i, cams, 0) \o LightPass(i)

\* the commands recordCmdBuffers records for the list of lights, from
\* light i on
RECURSIVE RecordLights(_, _, _)
RecordLights(list, cams, i) ==
    IF i >= Len(list) THEN <<>>
    ELSE RecordLight(i, cams[list[i + 1]]) \o RecordLights(list, cams, i + 1)

recordCmdBuffers == RecordLights(m_lights, m_shadowCameras, 0)

\* deleteCmdBuffers that leaves the slot of the first image alone
deleteCmdBuffers_SkipFirst(buffers) ==
    [i \in DOMAIN buffers |-> IF i = 0 THEN buffers[i] ELSE Null]

\* deleteCmdBuffers: every slot is set to VK_NULL_HANDLE
deleteCmdBuffers(buffers) == [i \in DOMAIN buffers |-> Null]

\* recreateSwapchain: vkDeviceWaitIdle returns when all work submitted to
\* the device has completed, so every fence is signaled and the CPU knows of
\* it; the swapchain resources are rebuilt and the command buffers deleted.
recreateSwapchain ==
    /\ m_inFlightFences' = [f \in Frames |-> TRUE]
    /\ unobserved' = [i \in Images |-> Null]
    /\ m_commandBuffers' = deleteCmdBuffers(m_commandBuffers)
    /\ recordCount' = [i \in Images |-> 0]
    /\ everRecreated' = TRUE
    /\ recordedLights' = [i \in Images |-> <<>>]

\* the semaphores: none (VK_NULL_HANDLE), the render-finished semaphore of a
\* frame in flight, and the semaphore the overlay pass returns
NoSemaphore == <<"VK_NULL_HANDLE">>
RenderFinished(f) == <<"renderFinished", ToString(f)>>
OverlaySemaphore == <<"overlay">>

\* the overlay sub-renderer object (VESubrenderFW_Nuklear)
OverlayObject == 1

RenderInitVars ==
    /\ pc = "drawFrame"
    /\ m_currentFrame = 0
    /\ imageIndex = 0
    /\ m_commandBuffers = [i \in Images |-> Null]
    /\ m_inFlightFences = [f \in Frames |-> TRUE]
    /\ m_framebufferResized = FALSE
    /\ recordCount = [i \in Images |-> 0]
    /\ unobserved = [i \in Images |-> Null]
    /\ everRecreated = FALSE
    /\ recordedLights = [i \in Images |-> <<>>]
    /\ m_end_running = FALSE
    /\ m_subrenderOverlay = Null
    /\ m_overlaySemaphores = [f \in Frames |-> NoSemaphore]
    /\ submittedThisFrame = FALSE

\* what a renderer call leaves alone outside the renderer
RenderFrame ==
    UNCHANGED <<nodes, m_parent, m_children, m_transform, m_name,
                lightVars, assetVars, listenerVars,
                    heapVars>>

\* drawFrame never leaves at the out-of-date result
AcquireAborts_Never(result) == FALSE

\* result == VK_ERROR_OUT_OF_DATE_KHR
AcquireAborts(result) == result = "VK_ERROR_OUT_OF_DATE_KHR"

\* result != VK_SUCCESS && result != VK_SUBOPTIMAL_KHR
IsFatal(result) == result \notin {"VK_SUCCESS", "VK_SUBOPTIMAL_KHR"}

\* the images whose last submission the fence of frame f signals, seen as
\* completed once the CPU has waited on the fence
Observed(f) == [i \in Images |-> IF unobserved[i] = f + 1 THEN Null
                                 ELSE unobserved[i]]

(***************************************************************************)
(* drawFrame(): vkWaitForFences returns once the fence of the current      *)
(* frame in flight is signaled; vkAcquireNextImageKHR returns result and,  *)
(* when it delivers an image, its index (after an error the index is       *)
(* whatever image stands for).  fatalError returns to its caller, as the   *)
(* handler of main() relies on, and ends the render loop after this tick;  *)
(* drawFrame goes on to record and to submit.                              *)
(***************************************************************************)
DrawFrame(result, image) ==
    /\ pc = "drawFrame"
    /\ ~m_end_running
    /\ m_inFlightFences[m_currentFrame]
    /\ LET cached == m_commandBuffers[image] # Null
           report == [op |-> "drawFrame", result |-> result,
                      frameBefore |-> m_currentFrame,
                      buffersBefore |-> m_commandBuffers,
                      recreated |-> FALSE, recorded |-> FALSE,
                      submitted |-> FALSE, cached |-> FALSE,
                      fenceObserved |-> FALSE, fatal |-> FALSE,
                      cmds |-> <<>>]
       IN
       IF AcquireAborts(result)
       THEN /\ image = imageIndex
            /\ recreateSwapchain
            /\ \E next \in {"drawFrame", "prepareOverlay"} : pc' = next
            /\ submittedThisFrame' = FALSE
            /\ lastOp' = [report EXCEPT !.recreated = TRUE]
            /\ UNCHANGED <<m_currentFrame, imageIndex, m_framebufferResized,
                           m_end_running, m_overlaySemaphores>>
       ELSE /\ m_end_running' = IsFatal(result)
            /\ imageIndex' = image
            /\ m_commandBuffers' =
                   IF cached THEN m_commandBuffers
                   ELSE [m_commandBuffers EXCEPT
                            ![image] = NewCommandBuffer(image)]
            /\ recordCount' =
                   IF cached THEN recordCount
                   ELSE [recordCount EXCEPT
                            ![image] = IF @ < 2 THEN @ + 1 ELSE @]
            /\ recordedLights' =
                   IF cached THEN recordedLights
                   ELSE [recordedLights EXCEPT ![image] = m_lights]
            /\ m_overlaySemaphores' =
                   IF cached THEN m_overlaySemaphores
                   ELSE [m_overlaySemaphores EXCEPT
                            ![m_currentFrame] = RenderFinished(m_currentFrame)]
            /\ m_inFlightFences' =
                   [m_inFlightFences EXCEPT ![m_currentFrame] = FALSE]
            /\ unobserved' = [Observed(m_currentFrame) EXCEPT
                                 ![image] = m_currentFrame + 1]
            /\ pc' = "prepareOverlay"
            /\ submittedThisFrame' = TRUE
            /\ lastOp' = [report EXCEPT
                             !.recorded = ~cached,
                             !.submitted = TRUE,
                             !.cached = cached,
                             !.fatal = IsFatal(result),
                             !.fenceObserved =
                                 Observed(m_currentFrame)[image] = Null,
                             !.cmds = IF cached THEN <<>>
                                      ELSE recordCmdBuffers]
            /\ UNCHANGED <<m_currentFrame, m_framebufferResized,
                           everRecreated>>
    /\ UNCHANGED m_subrenderOverlay
    /\ RenderFrame

\* what prepareOverlay and drawOverlay leave alone
OverlayFrame ==
    /\ UNCHANGED <<m_currentFrame, imageIndex, m_commandBuffers,
                   m_inFlightFences, m_framebufferResized, recordCount,
                   unobserved, everRecreated, recordedLights, m_end_running,
                   m_subrenderOverlay, submittedThisFrame>>
    /\ RenderFrame

(***************************************************************************)
(* prepareOverlay(): the overlay sub-renderer, if there is one, starts a   *)
(* new frame of the user interface.                                        *)
(***************************************************************************)
PrepareOverlay ==
    /\ pc = "prepareOverlay"
    /\ pc' = "drawOverlay"
    /\ lastOp' = [op |-> "prepareOverlay", frameBefore |-> m_currentFrame,
                  overlay |-> m_subrenderOverlay # Null]
    /\ UNCHANGED m_overlaySemaphores
    /\ OverlayFrame

(***************************************************************************)
(* drawOverlay()                                                           *)
(***************************************************************************)
DrawOverlay ==
    /\ pc = "drawOverlay"
    /\ pc' = "presentFrame"
    /\ m_overlaySemaphores' =
           IF m_subrenderOverlay = Null THEN m_overlaySemaphores
           ELSE [m_overlaySemaphores EXCEPT
                    ![m_currentFrame] = OverlaySemaphore]
    /\ lastOp' = [op |-> "drawOverlay", frameBefore |-> m_currentFrame,
                  overlay |-> m_subrenderOverlay # Null]
    /\ OverlayFrame

\* a frame counter that presentFrame leaves where it is
NextFrame_Stay(f) == f

\* (m_currentFrame + 1) % MAX_FRAMES_IN_FLIGHT
NextFrame(f) == (f + 1) % MAX_FRAMES_IN_FLIGHT

(***************************************************************************)
(* presentFrame(): result is what vhRenderPresentResult returns.           *)
(***************************************************************************)
PresentFrame(result) ==
    /\ pc = "presentFrame"
    /\ LET recreates ==
               \/ result \in {"VK_ERROR_OUT_OF_DATE_KHR", "VK_SUBOPTIMAL_KHR"}
               \/ m_framebufferResized
           fatal == ~recreates /\ result # "VK_SUCCESS"
       IN
       /\ lastOp' = [op |-> "presentFrame", result |-> result,
                     frameBefore |-> m_currentFrame,
                     buffersBefore |-> m_commandBuffers,
                     resized |-> m_framebufferResized,
                     recreated |-> recreates,
                     fatal |-> fatal,
                     submitted |-> submittedThisFrame,
                     overlay |-> m_subrenderOverlay # Null,
                     waitSemaphore |-> m_overlaySemaphores[m_currentFrame]]
       /\ IF recreates
          THEN /\ m_framebufferResized' = FALSE
               /\ recreateSwapchain
               /\ UNCHANGED m_end_running
          ELSE /\ m_end_running' = (m_end_running \/ fatal)
               /\ UNCHANGED <<m_commandBuffers, m_inFlightFences,
                              m_framebufferResized, recordCount, unobserved,
                              everRecreated, recordedLights>>
    /\ m_currentFrame' = NextFrame(m_currentFrame)
    /\ pc' = "drawFrame"
    /\ submittedThisFrame' = FALSE
    /\ UNCHANGED <<imageIndex, m_subrenderOverlay, m_overlaySemaphores>>
    /\ RenderFrame

\* what the events outside the render loop leave alone in the renderer
EventFrame ==
    /\ UNCHANGED <<pc, m_currentFrame, imageIndex, m_commandBuffers,
                   recordCount, unobserved, everRecreated, recordedLights,
                   m_end_running, m_overlaySemaphores, submittedThisFrame>>
    /\ RenderFrame

\* the window reports a new size
WindowResized ==
    /\ ~m_end_running
    /\ ~m_framebufferResized
    /\ m_framebufferResized' = TRUE
    /\ lastOp' = [op |-> "windowResized"]
    /\ UNCHANGED <<m_inFlightFences, m_subrenderOverlay>>
    /\ EventFrame

\* the GPU completes the work submitted with the fence of frame f
GpuCompletes(f) ==
    /\ ~m_inFlightFences[f]
    /\ m_inFlightFences' = [m_inFlightFences EXCEPT ![f] = TRUE]
    /\ lastOp' = [op |-> "gpuCompletes"]
    /\ UNCHANGED <<m_framebufferResized, m_subrenderOverlay>>
    /\ EventFrame

\* addSubrenderer(new VESubrenderFW_Nuklear()): the renderer gets its
\* overlay sub-renderer
AddSubrendererOverlay ==
    /\ pc = "drawFrame"
    /\ m_subrenderOverlay = Null
    /\ m_subrenderOverlay' = OverlayObject
    /\ lastOp' = [op |-> "addSubrenderer"]
    /\ UNCHANGED <<m_inFlightFences, m_framebufferResized>>
    /\ EventFrame

(***************************************************************************)
(* The GLFW event listener: its state when it is registered.  No mouse     *)
(* button is down and no cursor position is known.                         *)
(***************************************************************************)
MouseInitVars ==
    /\ m_rightButtonClicked = FALSE
    /\ m_usePrevCursorPosition = FALSE
    /\ m_cursorPrevX = 0
    /\ m_cursorPrevY = 0
    /\ buttonsHeld = {}
    /\ movesSinceButton = 0

\* no screenshot is asked for and none was made
ShotInitVars ==
    /\ m_makeScreenshot = FALSE
    /\ m_makeScreenshotDepth = FALSE
    /\ m_numScreenshot = 0
    /\ poolTasks = {}
    /\ written = {}

\* no house is created yet
HouseInitVars ==
    /\ housesLeft = <<>>
    /\ housesRight = <<>>
    /\ housePos = EmptyMap
    /\ zOffsetS = 0
    /\ distanceTraveledSinceLastMove = 0
    /\ houseNamesID = 0

ListenerInitVars == MouseInitVars /\ ShotInitVars /\ HouseInitVars

(***************************************************************************)
(* Initial state of the whole model                                        *)
(***************************************************************************)
\* nothing is freed before the program starts
HeapInitVars == deleted = {}

Init ==
    /\ TreeInitVars /\ LightInitVars /\ AssetInitVars /\ RenderInitVars
    /\ ListenerInitVars /\ HeapInitVars

(***************************************************************************)
(* SpecTree: node constructions (default transform) and addChild calls.    *)
(***************************************************************************)
TreeNext ==
    \/ \E p \in nodes \cup {Null} : NewSceneNode(p, Identity)
    \/ \E p \in nodes, n \in nodes : AddChild(p, n)

SpecTree == Init /\ [][TreeNext]_vars

(***************************************************************************)
(* SpecTransform: constructions, addChild, setTransform and                *)
(* multiplyTransform calls with any of the input transforms.               *)
(***************************************************************************)
TransformNext ==
    \/ \E p \in nodes \cup {Null}, t \in TransfInputs : NewSceneNode(p, t)
    \/ \E p \in nodes, n \in nodes : AddChild(p, n)
    \/ \E n \in nodes, t \in TransfInputs : SetTransform(n, t)
    \/ \E n \in nodes, t \in TransfInputs : MultiplyTransform(n, t)

SpecTransform == Init /\ [][TransformNext]_vars

(***************************************************************************)
(* SpecLights: lights are created, switched on and off, and their shadow   *)
(* cameras updated.                                                        *)
(***************************************************************************)
LightsNext ==
    \/ \E t \in LightTypes, p \in nodes \cup {Null} : CreateLight(t, p)
    \/ \E l \in lights : SwitchOnLight(l)
    \/ \E l \in lights : SwitchOffLight(l)
    \/ \E l \in lights : UpdateShadowCameras(l)

SpecLights == Init /\ [][LightsNext]_vars

(***************************************************************************)
(* SpecAssets: asset files are loaded with loadAssets and loadModel.       *)
(***************************************************************************)
AssetsNext ==
    \/ \E f \in Files, ok \in BOOLEAN : LoadAssets(f, ok)
    \/ \E e \in EntityNames, f \in Files, p \in nodes \cup {Null},
          ok \in BOOLEAN : LoadModel(e, f, p, ok)

SpecAssets == Init /\ [][AssetsNext]_vars

(***************************************************************************)
(* SpecFrames: the render loop draws and presents frames while the GPU     *)
(* works and the window is resized.                                        *)
(***************************************************************************)
FramesNext ==
    \/ \E r \in VkResults, i \in Images : DrawFrame(r, i)
    \/ PrepareOverlay
    \/ DrawOverlay
    \/ \E r \in VkResults : PresentFrame(r)
    \/ WindowResized
    \/ AddSubrendererOverlay
    \/ \E f \in Frames : GpuCompletes(f)

SpecFrames == Init /\ [][FramesNext]_vars

(***************************************************************************)
(* SpecRecord: lights are created and switched between the frames, which   *)
(* the render loop draws while the surface keeps changing: every present   *)
(* finds the swapchain suboptimal, so that every frame that acquires an    *)
(* image records its command buffer from the lights of that moment.  The   *)
(* acquire delivers an image or finds the swapchain out of date.           *)
(***************************************************************************)
RecordNext ==
    \/ pc = "drawFrame" /\ \E t \in LightTypes : CreateLight(t, Null)
    \/ pc = "drawFrame" /\ \E l \in lights : SwitchOnLight(l)
    \/ pc = "drawFrame" /\ \E l \in lights : SwitchOffLight(l)
    \/ \E r \in {"VK_SUCCESS", "VK_ERROR_OUT_OF_DATE_KHR"}, i \in Images :
          DrawFrame(r, i)
    \/ PrepareOverlay
    \/ DrawOverlay
    \/ PresentFrame("VK_SUBOPTIMAL_KHR")
    \/ \E f \in Frames : GpuCompletes(f)

SpecRecord == Init /\ [][RecordNext]_vars

(***************************************************************************)
(* SpecContent: spot lights are created and switched between frames that   *)
(* the render loop draws and presents without trouble, so that command     *)
(* buffers stay cached from frame to frame.                                *)
(***************************************************************************)
ContentNext ==
    \/ pc = "drawFrame" /\ CreateLight("spot", Null)
    \/ pc = "drawFrame" /\ \E l \in lights : SwitchOnLight(l)
    \/ pc = "drawFrame" /\ \E l \in lights : SwitchOffLight(l)
    \/ \E i \in Images : DrawFrame("VK_SUCCESS", i)
    \/ PrepareOverlay
    \/ DrawOverlay
    \/ PresentFrame("VK_SUCCESS")
    \/ \E f \in Frames : GpuCompletes(f)

SpecContent == Init /\ [][ContentNext]_vars

(***************************************************************************)
(* Claims on the scene graph                                               *)
(***************************************************************************)
\* all the places (parent, index) where node n stands in a child list
Places(n) ==
    {pi \in NodeIds \X (1..Cardinality(NodeIds)) :
        pi[2] <= Len(m_children[pi[1]]) /\ m_children[pi[1]][pi[2]] = n}

\* C1: after any sequence of node constructions and addChild calls every
\* node stands in at most one child list and at most once in it; a node with
\* a parent stands exactly once in that parent's list and nowhere else; and an
\* addChild(B, N) that found N under another parent A has left A's list
\* without N.
C1_OneParentList ==
    /\ \A n \in nodes :
          /\ Cardinality(Places(n)) <= 1
          /\ m_parent[n] # Null =>
                /\ Cardinality(Places(n)) = 1
                /\ Count(n, m_children[m_parent[n]]) = 1
          /\ m_parent[n] = Null => Places(n) = {}
    /\ (lastOp.op = "addChild" /\ lastOp.oldParent # Null) =>
          /\ InSeq(lastOp.node, m_children[lastOp.parent])
          /\ lastOp.oldParent # lastOp.parent =>
                ~InSeq(lastOp.node, m_children[lastOp.oldParent])

\* C1 witness: an addChild(B, N) has just moved N from A to another node B,
\* and A keeps another child (the swap-with-last removal ran on a list of
\* more than one element).
C1_Witness ==
    /\ lastOp.op = "addChild"
    /\ lastOp.oldParent \notin {Null, lastOp.parent, lastOp.node}
    /\ lastOp.parent # lastOp.node
    /\ Len(m_children[lastOp.oldParent]) >= 1
    /\ m_parent[lastOp.node] = lastOp.parent

\* C2: for every node N with parent P, getWorldTransform(N) returns
\* getWorldTransform(P) * getTransform(N), and for a node without parent it
\* returns getTransform(N), after any sequence of setTransform,
\* multiplyTransform and addChild calls.
C2_WorldTransform ==
    \A n \in nodes :
        /\ getWorldTransform(n) # NoReturn
        /\ IF m_parent[n] # Null
           THEN getWorldTransform(n) =
                    Mul(getWorldTransform(m_parent[n]), getTransform(n))
           ELSE getWorldTransform(n) = getTransform(n)

\* the parent chain of n reaches a node without parent
RECURSIVE ChainEnds(_, _)
ChainEnds(n, fuel) ==
    IF m_parent[n] = Null THEN TRUE
    ELSE IF fuel = 0 THEN FALSE ELSE ChainEnds(m_parent[n], fuel - 1)

\* The equation of C2 on the nodes whose parent chain is no cycle: there the
\* world transform is the product of the local transforms from the root down.
WorldTransformOnTrees ==
    \A n \in nodes :
        ChainEnds(n, Cardinality(NodeIds)) =>
            /\ getWorldTransform(n) # NoReturn
            /\ IF m_parent[n] # Null
               THEN getWorldTransform(n) =
                        Mul(getWorldTransform(m_parent[n]), getTransform(n))
               ELSE getWorldTransform(n) = getTransform(n)

\* a chain of three nodes with transforms that do not commute has been built
WorldTransformOnTreesWitness ==
    \E n \in nodes :
        /\ m_parent[n] # Null /\ m_parent[m_parent[n]] # Null
        /\ ChainEnds(n, Cardinality(NodeIds))
        /\ Mul(getTransform(m_parent[n]), getTransform(n)) #
               Mul(getTransform(n), getTransform(m_parent[n]))
        /\ lastOp.op = "multiplyTransform"

(***************************************************************************)
(* Claims on the lights                                                    *)
(***************************************************************************)
\* the camera objects of a light, in the order of the vector
CamObjects(cams) == [i \in 1..Len(cams) |-> cams[i].obj]

\* a step of switchOffLight(L) leaves L in the node table, in its parent's
\* child list and with the same shadow cameras
SwitchOffKeepsNode ==
    lastOp'.op = "switchOffLight" =>
        /\ m_sceneNodes' = m_sceneNodes
        /\ Lookup(m_sceneNodes', m_name'[lastOp'.node]) = lastOp'.node
        /\ m_children' = m_children
        /\ m_parent' = m_parent
        /\ m_shadowCameras'[lastOp'.node] = m_shadowCameras[lastOp'.node]

\* a step of switchOnLight(L) that follows switchOffLight(L) makes L active
\* with the camera objects it had
SwitchOnRestores ==
    (lastOp.op = "switchOffLight" /\ lastOp'.op = "switchOnLight"
        /\ lastOp'.node = lastOp.node) =>
        /\ InSeq(lastOp'.node, m_lights')
        /\ CamObjects(m_shadowCameras'[lastOp'.node]) =
               CamObjects(m_shadowCameras[lastOp'.node])
        /\ nextCam' = nextCam

\* C3: switchOffLight(L) removes L from the active light list but leaves L
\* registered in the node table, in its parent's child list and with its
\* shadow-camera list unchanged; a following switchOnLight(L) makes L active
\* again with the same shadow-camera objects.
C3_SwitchOffOn ==
    [][ /\ lastOp'.op = "switchOffLight" => ~InSeq(lastOp'.node, m_lights')
        /\ SwitchOffKeepsNode
        /\ SwitchOnRestores ]_vars

\* The part of C3 that holds for every call: node table, child lists and
\* shadow cameras are kept, a following switchOnLight makes the light active,
\* and a light that was in the active list once is not in it afterwards.
SwitchOffOnEffect ==
    [][ /\ (lastOp'.op = "switchOffLight"
              /\ Count(lastOp'.node, m_lights) <= 1)
            => ~InSeq(lastOp'.node, m_lights')
        /\ SwitchOffKeepsNode
        /\ SwitchOnRestores ]_vars

\* C10: after every updateShadowCameras call on a directional light the
\* light has exactly 4 shadow cameras with the fraction pairs (0, 0.05),
\* (0.05, 0.15), (0.15, 0.50), (0.50, 1.0): each cascade ends where the next
\* starts, the first starts at 0, the last ends at 1, none overlap.
C10_Cascades ==
    (lastOp.op = "updateShadowCameras" /\ lightType[lastOp.node] = "dir") =>
        LET cams == m_shadowCameras[lastOp.node]
            pair(i) == <<cams[i].m_nearPlaneFraction, cams[i].m_farPlaneFraction>>
        IN /\ Len(cams) = 4
           /\ <<pair(1), pair(2), pair(3), pair(4)>> =
                  << <<0, 5>>, <<5, 15>>, <<15, 50>>, <<50, 100>> >>
           /\ \A i \in 1..3 :
                  cams[i].m_farPlaneFraction = cams[i + 1].m_nearPlaneFraction
           /\ \A i \in 1..4 :
                  cams[i].m_nearPlaneFraction < cams[i].m_farPlaneFraction
           /\ cams[1].m_nearPlaneFraction = 0
           /\ cams[4].m_farPlaneFraction = 100

\* C10 witness: updateShadowCameras has just run on a directional light while
\* another light exists
C10_Witness ==
    /\ lastOp.op = "updateShadowCameras"
    /\ lightType[lastOp.node] = "dir"
    /\ Cardinality(lights) >= 2
    /\ m_shadowCameras[lastOp.node][2].m_farPlaneFraction = 15

(***************************************************************************)
(* Claims on asset loading                                                 *)
(***************************************************************************)
\* the last operation was a load that did not throw
LoadReturned ==
    /\ lastOp.op \in {"loadAssets", "loadModel"}
    /\ ~lastOp.failed

\* every key of the table holds an object of its own, and every object
\* created so far (objects 1..next-1) is held by a key
OneObjectPerKey(table, next) ==
    /\ \A k \in DOMAIN table : table[k] \in 1..(next - 1)
    /\ \A k1, k2 \in DOMAIN table : table[k1] = table[k2] => k1 = k2
    /\ Cardinality(DOMAIN table) = next - 1

\* C9: a load of a file that was loaded before (by loadAssets or loadModel,
\* same basedir and filename) returns the same mesh and material objects as
\* the first load of the file and creates no mesh and no material; after any
\* sequence of loads the mesh table and the material table hold one object
\* per key, with no object created beside them.
C9_SameAssets ==
    /\ (LoadReturned /\ lastOp.again) =>
           /\ lastOp.result = firstResult[lastOp.file]
           /\ lastOp.created = 0
    /\ OneObjectPerKey(m_meshes, nextMesh)
    /\ OneObjectPerKey(m_materials, nextMaterial)

\* a file with two meshes was loaded by loadAssets and again by loadModel,
\* after another file was loaded
C9_Witness ==
    /\ LoadReturned /\ lastOp.again
    /\ lastOp.op = "loadModel"
    /\ Len(lastOp.result.meshes) = 2
    /\ lastOp.result.meshes[1] # Null
    /\ DOMAIN firstResult = Files
    /\ nextMesh > 3

(***************************************************************************)
(* Claims on the frames                                                    *)
(***************************************************************************)
AllSlotsEmpty == \A i \in Images : m_commandBuffers[i] = Null

\* the last call was a drawFrame that submitted a command buffer
Submitted == lastOp.op = "drawFrame" /\ lastOp.submitted

\* C4: when presentFrame (resize flag or stale result) or drawFrame (stale
\* result) has recreated the swapchain, every command buffer slot is empty;
\* between two invalidations recordCmdBuffers runs at most once per
\* swapchain image, and a frame that acquires an image whose slot is filled
\* submits the cached buffer without recording.
C4_RecordOncePerImage ==
    /\ (lastOp.op \in {"drawFrame", "presentFrame"} /\ lastOp.recreated)
            => AllSlotsEmpty
    /\ \A i \in Images : recordCount[i] <= 1
    /\ (Submitted /\ lastOp.cached) => ~lastOp.recorded
    /\ (Submitted /\ ~lastOp.cached) => lastOp.recorded

\* after a recreation of the swapchain both slots were filled again, and
\* the frame that follows submits a cached buffer
C4_Witness ==
    /\ everRecreated
    /\ Submitted /\ lastOp.cached
    /\ \A i \in Images : recordCount[i] = 1

\* C5: a drawFrame that submits the cached command buffer of an image does
\* so only when the CPU has waited on the fence that the previous submission
\* of that command buffer signals.
C5_ReuseAfterFence ==
    (Submitted /\ lastOp.cached) => lastOp.fenceObserved

\* C6: a drawFrame whose acquire returns the out-of-date result recreates
\* the swapchain, records nothing, submits nothing, leaves the frame index
\* and the fences of the frames in flight as they were before the submit
\* and returns with every command buffer slot empty.
C6_OutOfDateAborts ==
    (lastOp.op = "drawFrame" /\ lastOp.result = "VK_ERROR_OUT_OF_DATE_KHR")
        => /\ lastOp.recreated
           /\ ~lastOp.recorded
           /\ ~lastOp.submitted
           /\ lastOp.cmds = <<>>
           /\ m_currentFrame = lastOp.frameBefore
           /\ AllSlotsEmpty

\* an out-of-date acquire in the second frame in flight, with a command
\* buffer cached before the call
C6_Witness ==
    /\ lastOp.op = "drawFrame"
    /\ lastOp.result = "VK_ERROR_OUT_OF_DATE_KHR"
    /\ lastOp.frameBefore = 1
    /\ \E i \in Images : lastOp.buffersBefore[i] # Null

(***************************************************************************)
(* Claims on the recorded command buffers                                  *)
(***************************************************************************)
\* the last call was a drawFrame that recorded a command buffer
Recorded == lastOp.op = "drawFrame" /\ lastOp.recorded

\* the positions of the commands of the recorded buffer that satisfy P
Positions(P(_)) == {k \in 1..Len(lastOp.cmds) : P(lastOp.cmds[k])}

IsLightBegin(c) == c.cmd = "begin" /\ c.pass \in {"clear", "load"}
IsClearBegin(c) == c.cmd = "begin" /\ c.pass = "clear"
IsLoadBegin(c) == c.cmd = "begin" /\ c.pass = "load"

\* C7: in a command buffer recorded with n >= 1 active lights, exactly one
\* light pass uses the clearing render pass, it is the pass of the first
\* light of the list, and the passes of the n-1 later lights (one each) use
\* the loading render pass.
C7_FirstLightClears ==
    (Recorded /\ Len(m_lights) >= 1) =>
        /\ Cardinality(Positions(IsLightBegin)) = Len(m_lights)
        /\ Cardinality(Positions(IsClearBegin)) = 1
        /\ \A k \in Positions(IsClearBegin) : lastOp.cmds[k].light = 0
        /\ Cardinality(Positions(IsLoadBegin)) = Len(m_lights) - 1
        /\ \A i \in 1..(Len(m_lights) - 1) :
              \E k \in Positions(IsLoadBegin) : lastOp.cmds[k].light = i

\* a command buffer recorded with two active lights
C7_Witness ==
    /\ Recorded
    /\ Len(m_lights) = 2
    /\ Cardinality(Positions(IsLoadBegin)) = 1

\* the position of command c of light i in the recorded buffer (0: none)
PosOf(cmd, passes, i, target) ==
    LET ks == {k \in 1..Len(lastOp.cmds) :
                  /\ lastOp.cmds[k].cmd = cmd
                  /\ lastOp.cmds[k].pass \in passes
                  /\ lastOp.cmds[k].light = i
                  /\ lastOp.cmds[k].target = target}
    IN IF ks = {} THEN 0 ELSE CHOOSE k \in ks : \A k2 \in ks : k <= k2

LightPasses == {"clear", "load"}

\* C8: in a recorded command buffer, for each active light L (by its place
\* in the list) every shadow camera of L has one shadow pass, begun and
\* ended before the light pass of L begins, and every shadow pass of a later
\* light begins after the light pass of L has ended.
C8_ShadowBeforeLight ==
    Recorded =>
        \A i \in 0..(Len(m_lights) - 1) :
            LET cams == m_shadowCameras[m_lights[i + 1]]
                lightBegin == PosOf("begin", LightPasses, i, -1)
                lightEnd == PosOf("end", LightPasses, i, -1)
            IN /\ lightBegin > 0 /\ lightEnd > lightBegin
               /\ \A j \in 0..(Len(cams) - 1) :
                     /\ Cardinality({k \in 1..Len(lastOp.cmds) :
                            lastOp.cmds[k] = Cmd("begin", "shadow", i, j)}) = 1
                     /\ PosOf("begin", {"shadow"}, i, j) > 0
                     /\ PosOf("end", {"shadow"}, i, j)
                            > PosOf("begin", {"shadow"}, i, j)
                     /\ PosOf("end", {"shadow"}, i, j) < lightBegin
               /\ \A k \in 1..Len(lastOp.cmds) :
                     (lastOp.cmds[k].pass = "shadow"
                        /\ lastOp.cmds[k].light > i) => k > lightEnd
               /\ \A k \in 1..Len(lastOp.cmds) :
                     (lastOp.cmds[k].pass = "shadow"
                        /\ lastOp.cmds[k].light = i) =>
                            lastOp.cmds[k].target \in 0..(Len(cams) - 1)

\* a command buffer recorded with a point light (6 shadow cameras) first
\* and a directional light (4 shadow cameras) second
C8_Witness ==
    /\ Recorded
    /\ Len(m_lights) = 2
    /\ lightType[m_lights[1]] = "point"
    /\ lightType[m_lights[2]] = "dir"
    /\ PosOf("begin", {"shadow"}, 1, 3) > PosOf("end", LightPasses, 0, -1)

(***************************************************************************)
(* Claims on the content of cached command buffers                         *)
(***************************************************************************)
\* C11: the command buffer a drawFrame submits was recorded from the list of
\* active lights as it is at the submission: a change of the list
\* (switchOnLight, switchOffLight) empties the slots, so that the next frame
\* of every image records again.
C11_SubmittedIsCurrent ==
    Submitted => recordedLights[imageIndex] = m_lights

IsShadowBegin(c) == c.cmd = "begin" /\ c.pass = "shadow"

\* C13: in a recorded command buffer no shadow framebuffer of the image is
\* the target of shadow passes of two different active lights.
C13_DedicatedShadowFramebuffers ==
    Recorded =>
        \A k1, k2 \in Positions(IsShadowBegin) :
            lastOp.cmds[k1].target = lastOp.cmds[k2].target
                => m_lights[lastOp.cmds[k1].light + 1]
                       = m_lights[lastOp.cmds[k2].light + 1]

(***************************************************************************)
(* Claims on the sub-renderers of the light pass                           *)
(***************************************************************************)
\* the positions of the draws of sub-renderer sub in the light pass of
\* light i
LightDraws(sub, i) ==
    {k \in 1..Len(lastOp.cmds) :
        /\ lastOp.cmds[k].cmd = "draw"
        /\ lastOp.cmds[k].pass \in LightPasses
        /\ lastOp.cmds[k].sub = sub
        /\ lastOp.cmds[k].light = i}

RecordedLightIndices == 0..(Len(m_lights) - 1)

Registered == {m_subrenderers[k] : k \in 1..Len(m_subrenderers)}

BackgroundSubrenderers ==
    {sub \in Registered : getClass(sub) = "VE_SUBRENDERER_CLASS_BACKGROUND"}

\* for the first light every registered sub-renderer draws once, for a
\* later light exactly the sub-renderers of the OBJECT class, and every
\* draw lies inside the light pass of its light
DrawsPerLight ==
    \A i \in RecordedLightIndices : \A sub \in Registered :
        /\ Cardinality(LightDraws(sub, i)) =
               IF i = 0 \/ getClass(sub) = "VE_SUBRENDERER_CLASS_OBJECT"
                   THEN 1 ELSE 0
        /\ \A k \in LightDraws(sub, i) :
               /\ PosOf("begin", LightPasses, i, -1) < k
               /\ k < PosOf("end", LightPasses, i, -1)

TotalLightDraws(sub) ==
    Cardinality(UNION {LightDraws(sub, i) : i \in RecordedLightIndices})

\* C14 as stated: while recording, for the first active light every
\* registered sub-renderer draws, for each later light only the OBJECT
\* class, and a background sub-renderer draws exactly once per recorded
\* command buffer.
C14_BackgroundExactlyOnce ==
    Recorded =>
        /\ DrawsPerLight
        /\ \A sub \in BackgroundSubrenderers : TotalLightDraws(sub) = 1

\* C14 amended: while recording, for the first active light every
\* registered sub-renderer draws, for each later light only the OBJECT
\* class; a background sub-renderer draws exactly once in a command buffer
\* recorded with at least one active light, in the pass of the first
\* light, and not at all in one recorded with no active light.
C14_BackgroundOncePerLitBuffer ==
    Recorded =>
        /\ DrawsPerLight
        /\ \A sub \in BackgroundSubrenderers :
              /\ TotalLightDraws(sub) = IF Len(m_lights) = 0 THEN 0 ELSE 1
              /\ \A i \in RecordedLightIndices :
                    LightDraws(sub, i) # {} => i = 0

C14_Witness ==
    /\ Recorded
    /\ Len(m_lights) >= 2
    /\ \E sub \in BackgroundSubrenderers :
          LightDraws(sub, 0) # {} /\ LightDraws(sub, 1) = {}
    /\ \E sub \in Registered : LightDraws(sub, 1) # {}

(***************************************************************************)
(* The per-frame update of the scene (VESceneManager::updateSceneNodes)    *)
(***************************************************************************)
\* the children lists are followed at most this deep; the lists of the
\* reachable states hold no cycle below a node without parent, so that the
\* bound is never met
UpdateDepth == Cardinality(nodes) + 1

\* VESceneNode::update(parentWorldMatrix, imageIndex) of node n: updateUBO
\* of n, then updateChildren.  counts[n] is the number of updateUBO calls
\* node n has had in this updateSceneNodes.
RECURSIVE UpdateNode(_, _, _, _)
RECURSIVE UpdateChildren(_, _, _, _, _)
UpdateNode(counts, ch, n, fuel) ==
    IF fuel = 0 THEN counts
    ELSE UpdateChildren([counts EXCEPT ![n] = @ + 1], ch, ch[n], 1, fuel - 1)

\* the loop of updateChildren over m_children, from the i-th child on
UpdateChildren(counts, ch, list, i, fuel) ==
    IF i > Len(list) THEN counts
    ELSE UpdateChildren(UpdateNode(counts, ch, list[i], fuel),
                        ch, list, i + 1, fuel)

\* the loop of updateSceneNodes over the entries keys of the node table:
\* the nodes without parent are updated
RECURSIVE UpdateRoots(_, _)
UpdateRoots(counts, keys) ==
    IF keys = {} THEN counts
    ELSE LET k == CHOOSE x \in keys : TRUE
             pSceneNode == m_sceneNodes[k]
         IN UpdateRoots(IF m_parent[pSceneNode] = Null
                            THEN UpdateNode(counts, m_children, pSceneNode,
                                            UpdateDepth)
                            ELSE counts,
                        keys \ {k})

UpdateCounts == UpdateRoots([n \in NodeIds |-> 0], DOMAIN m_sceneNodes)

\* VELight::updateUBO calls updateShadowCameras once, whose loop calls
\* update(imageIndex) once on every shadow camera of the light: the number
\* of updates of the shadow cameras of light n
ShadowCameraUpdates(counts, n) ==
    [j \in 1..Len(m_shadowCameras[n]) |-> counts[n]]

UpdateSceneNodes(image) ==
    LET counts == UpdateCounts IN
    /\ m_shadowCameras' =
           [n \in NodeIds |->
               IF counts[n] > 0 /\ lightType[n] \in LightTypes
                   THEN UpdatedShadowCameras(lightType[n], m_shadowCameras[n])
                   ELSE m_shadowCameras[n]]
    /\ lastOp' = [op |-> "updateSceneNodes", imageIndex |-> image,
                  updates |-> counts,
                  camUpdates |-> [n \in NodeIds |->
                                     ShadowCameraUpdates(counts, n)]]
    /\ UNCHANGED <<nodes, m_parent, m_children, m_transform, m_name>>
    /\ UNCHANGED <<lightType, m_lights, m_sceneNodes, nextCam, restVars>>

\* this->removeChild(pEntity)
RemoveChild(this, pEntity) ==
    /\ m_children' = [m_children EXCEPT ![this] =
                          RemoveChildList(m_children[this], pEntity)]
    /\ lastOp' = [op |-> "removeChild", node |-> pEntity]
    /\ UNCHANGED <<nodes, m_parent, m_transform, m_name>>
    /\ UNCHANGED <<lightVars, restVars>>

\* the scene manager's state as the creation functions take it
SceneState ==
    [tree |-> TreeState, table |-> m_sceneNodes,
     mesh |-> m_pMesh, mat |-> m_pMaterial, ret |-> Null]

SetScene(S) ==
    /\ SetTree(S.tree)
    /\ m_sceneNodes' = S.table
    /\ m_pMesh' = S.mesh
    /\ m_pMaterial' = S.mat

\* getSceneManagerPointer()->createSceneNode(objectName, transf, parent)
CreateSceneNode(objectName, transf, parent) ==
    LET S == createSceneNode(SceneState, objectName, transf, parent) IN
    /\ Cardinality(S.tree.nodes) <= MaxNodes
    /\ SetScene(S)
    /\ lastOp' = [op |-> "createSceneNode", node |-> S.ret]
    /\ UNCHANGED <<lightType, m_shadowCameras, m_lights, nextCam>>
    /\ UNCHANGED <<m_meshes, m_materials, nextMesh, nextMaterial,
                   firstResult, renderVars, listenerVars,
                       heapVars>>

\* getSceneManagerPointer()->createEntity(entityName, pMesh, pMat, transf,
\* parent)
CreateEntity(entityName, pMesh, pMat, transf, parent) ==
    LET S == createEntity(SceneState, entityName, pMesh, pMat, transf,
                          parent) IN
    /\ Cardinality(S.tree.nodes) <= MaxNodes
    /\ SetScene(S)
    /\ lastOp' = [op |-> "createEntity", node |-> S.ret]
    /\ UNCHANGED <<lightType, m_shadowCameras, m_lights, nextCam>>
    /\ UNCHANGED <<m_meshes, m_materials, nextMesh, nextMaterial,
                   firstResult, renderVars, listenerVars,
                       heapVars>>

\* the nodes below node n in the children lists
RECURSIVE DescendantsRec(_, _)
DescendantsRec(n, fuel) ==
    IF fuel = 0 THEN {}
    ELSE LET direct == {m_children[n][i] : i \in 1..Len(m_children[n])}
         IN direct \cup UNION {DescendantsRec(c, fuel - 1) : c \in direct}

Descendants(n) == DescendantsRec(n, Cardinality(nodes))

\* the names the callers give to the scene nodes they create
SceneNodeNames == {ObjectName(k) : k \in 1..MaxNodes}

\* The calls a program makes on the scene between two frames, and the
\* update of the frame.  Entities get a new name each; a node is made the
\* child of a node that is neither itself nor below it, and a node is
\* removed from the node whose child it is.
UpdateNext ==
    \/ CreateLight("dir", Null)
    \/ \E name \in SceneNodeNames : \E parent \in nodes \cup {Null} :
          CreateSceneNode(name, Identity, parent)
    \/ \E parent \in nodes \cup {Null} :
          CreateEntity(ObjectName(Fresh) \o <<"/Entity">>, Null, Null,
                       Identity, parent)
    \/ \E this \in nodes : \E pObject \in nodes :
          /\ this # pObject
          /\ this \notin Descendants(pObject)
          /\ AddChild(this, pObject)
    \/ \E this \in nodes : \E pEntity \in nodes :
          /\ InSeq(pEntity, m_children[this])
          /\ RemoveChild(this, pEntity)
    \/ UpdateSceneNodes(0)

SpecUpdate == Init /\ [][UpdateNext]_vars

\* C15: in every updateSceneNodes each scene object of the node table is
\* updated exactly once, and each shadow camera of each updated light
\* exactly once.
C15_UpdatedExactlyOnce ==
    lastOp.op = "updateSceneNodes" =>
        /\ \A k \in DOMAIN m_sceneNodes :
              lastOp.updates[m_sceneNodes[k]] = 1
        /\ \A n \in nodes :
              (lightType[n] \in LightTypes /\ lastOp.updates[n] > 0) =>
                  \A j \in 1..Len(m_shadowCameras[n]) :
                      lastOp.camUpdates[n][j] = 1

(***************************************************************************)
(* Claims on the frame in flight and on fatal results                      *)
(***************************************************************************)
\* C16: the in-flight frame index lies in 0..MAX_FRAMES_IN_FLIGHT-1; every
\* presentFrame advances it by one modulo MAX_FRAMES_IN_FLIGHT, whether or
\* not it recreated the swapchain; drawFrame, prepareOverlay and
\* drawOverlay leave it as it was.
C16_FrameIndexAdvances ==
    /\ m_currentFrame \in 0..(MAX_FRAMES_IN_FLIGHT - 1)
    /\ MAX_FRAMES_IN_FLIGHT = 2
    /\ lastOp.op = "presentFrame" =>
           m_currentFrame = (lastOp.frameBefore + 1) % MAX_FRAMES_IN_FLIGHT
    /\ lastOp.op \in {"drawFrame", "prepareOverlay", "drawOverlay"} =>
           m_currentFrame = lastOp.frameBefore

\* a presentFrame that recreated the swapchain and wrapped the index around
C16_Witness ==
    /\ lastOp.op = "presentFrame"
    /\ lastOp.recreated
    /\ lastOp.frameBefore = MAX_FRAMES_IN_FLIGHT - 1
    /\ m_currentFrame = 0

\* C17: an acquire or present result other than success, suboptimal or
\* out-of-date is fatal and halts the render loop: no command buffer is
\* recorded or submitted in that tick or in a later one.
C17_FatalHalts ==
    /\ (lastOp.op = "drawFrame" /\ IsFatal(lastOp.result)
           /\ ~AcquireAborts(lastOp.result)) =>
               (~lastOp.recorded /\ ~lastOp.submitted)
    /\ (lastOp.op = "drawFrame" /\ (lastOp.recorded \/ lastOp.submitted)) =>
           ~m_end_running

(***************************************************************************)
(* Meshes: the bounding sphere (VEMesh::VEMesh)                            *)
(***************************************************************************)
\* vertex coordinates are the integers -MaxCoord..MaxCoord
MaxCoord == 1

\* the longest vertex list
MaxVertices == 2

Coords == (0 - MaxCoord)..MaxCoord

Vec3 == [x : Coords, y : Coords, z : Coords]

Origin == [x |-> 0, y |-> 0, z |-> 0]

VertexLists == UNION {[1..n -> Vec3] : n \in 0..MaxVertices}

Max(a, b) == IF a >= b THEN a ELSE b

\* The loop of both constructors over the vertices, from the i-th on:
\* m_boundingSphereRadius = max(max(max(x*x, y*y), z*z),
\* m_boundingSphereRadius).  r is the value so far.
RECURSIVE BoundingLoop(_, _, _)
BoundingLoop(vertices, i, r) ==
    IF i > Len(vertices) THEN r
    ELSE LET pos == vertices[i] IN
         BoundingLoop(vertices, i + 1,
                      Max(Max(Max(pos.x * pos.x, pos.y * pos.y),
                              pos.z * pos.z), r))

\* The bounding sphere a constructor leaves in the mesh.  The radius is
\* the square root of the value of the loop; the model keeps that value,
\* the square of the radius.
BoundingSphere(vertices) ==
    [m_boundingSphereCenter |-> Origin,
     radiusSquared |-> BoundingLoop(vertices, 1, 0)]

\* VEMesh(name, paiMesh): the vertices are copied from the aiMesh
MeshFromAiMesh(vertices) ==
    /\ lastOp' = [op |-> "VEMesh", from |-> "aiMesh", vertices |-> vertices,
                  sphere |-> BoundingSphere(vertices)]
    /\ UNCHANGED <<nodes, m_parent, m_children, m_transform, m_name>>
    /\ UNCHANGED <<lightVars, restVars>>

\* VEMesh(name, vertices, indices)
MeshFromVertices(vertices) ==
    /\ lastOp' = [op |-> "VEMesh", from |-> "vertices",
                  vertices |-> vertices,
                  sphere |-> BoundingSphere(vertices)]
    /\ UNCHANGED <<nodes, m_parent, m_children, m_transform, m_name>>
    /\ UNCHANGED <<lightVars, restVars>>

MeshNext ==
    \/ \E vertices \in VertexLists : MeshFromAiMesh(vertices)
    \/ \E vertices \in VertexLists : MeshFromVertices(vertices)

SpecMesh == Init /\ [][MeshNext]_vars

\* the square of the Euclidean distance of a vertex from the origin
DistanceSquared(pos) == pos.x * pos.x + pos.y * pos.y + pos.z * pos.z

\* C18: the bounding sphere of a mesh has its center at the origin and the
\* square of its radius is the maximum over the vertices of
\* x^2 + y^2 + z^2.
C18_BoundingSphere ==
    lastOp.op = "VEMesh" =>
        /\ lastOp.sphere.m_boundingSphereCenter = Origin
        /\ \A i \in 1..Len(lastOp.vertices) :
              DistanceSquared(lastOp.vertices[i]) <= lastOp.sphere.radiusSquared
        /\ \/ /\ lastOp.vertices = <<>>
              /\ lastOp.sphere.radiusSquared = 0
           \/ \E i \in 1..Len(lastOp.vertices) :
                 DistanceSquared(lastOp.vertices[i])
                     = lastOp.sphere.radiusSquared

(***************************************************************************)
(* Cameras: the projection matrices (VECameraProjective, VECameraOrtho)    *)
(***************************************************************************)
\* widths, heights, aspect ratios and plane distances are 1..MaxDim (the
\* far plane up to MaxDim + 1)
MaxDim == 2

Dims == 1..MaxDim

\* matrix entries are fractions <<numerator, denominator>>
Rat(n, d) == <<n, d>>

\* pm[i][j] *= -1.0f
Negated(q) == <<0 - q[1], q[2]>>

\* glm::ortho(-w/2, w/2, -h/2, h/2, zNear, zFar), the right-handed
\* projection of the library: [0][0] = 2/w, [1][1] = 2/h,
\* [2][2] = -2/(zFar - zNear), [2][3] = 0
GlmOrtho(w, h, zNear, zFar) ==
    [m00 |-> Rat(2, w), m11 |-> Rat(2, h),
     m22 |-> Rat(0 - 2, zFar - zNear), m23 |-> Rat(0, 1)]

\* glm::perspectiveFov(fov, width, height, zNear, zFar) of the library,
\* with cot = cos(fov/2) / sin(fov/2): [0][0] = cot * height / width,
\* [1][1] = cot, [2][2] = -(zFar + zNear)/(zFar - zNear), [2][3] = -1
GlmPerspectiveFov(cot, width, height, zNear, zFar) ==
    [m00 |-> Rat(cot * height, width), m11 |-> Rat(cot, 1),
     m22 |-> Rat(0 - (zFar + zNear), zFar - zNear), m23 |-> Rat(0 - 1, 1)]

\* the cameras: the fields the projection matrices read (cot stands for
\* m_fov)
OrthoCameras ==
    {[class |-> "VECameraOrtho", m_width |-> w, m_height |-> h,
      m_nearPlane |-> n, m_farPlane |-> f] :
        w \in Dims, h \in Dims, n \in Dims, f \in 2..(MaxDim + 1)}

ProjectiveCameras ==
    {[class |-> "VECameraProjective", m_aspectRatio |-> a, cot |-> c,
      m_nearPlane |-> n, m_farPlane |-> f] :
        a \in Dims, c \in Dims, n \in Dims, f \in 2..(MaxDim + 1)}

Cameras == {cam \in OrthoCameras \cup ProjectiveCameras :
               cam.m_nearPlane < cam.m_farPlane}

\* the call of the library each overload makes
LibraryProjection(cam, width, height) ==
    IF cam.class = "VECameraOrtho"
        THEN GlmOrtho(width * cam.m_width, height * cam.m_height,
                      cam.m_nearPlane, cam.m_farPlane)
        ELSE GlmPerspectiveFov(cam.cot, width, height,
                               cam.m_nearPlane, cam.m_farPlane)

\* VECameraProjective::getProjectionMatrix(width, height).  The function
\* also stores width / height in m_aspectRatio; every call of the model
\* takes its camera anew, so that the stored value is not read again.
ProjectiveProjection(cam, width, height) ==
    LET pm == LibraryProjection(cam, width, height) IN
    [pm EXCEPT !.m11 = Negated(@), !.m22 = Negated(@), !.m23 = Negated(@)]

\* VECameraProjective::getProjectionMatrix()
ProjectiveProjectionDefault(cam) ==
    ProjectiveProjection(cam, cam.m_aspectRatio, 1)

\* VECameraOrtho::getProjectionMatrix(width, height)
OrthoProjection(cam, width, height) ==
    LET pm == LibraryProjection(cam, width, height) IN
    [pm EXCEPT !.m11 = Negated(@), !.m22 = Negated(@)]

\* VECameraOrtho::getProjectionMatrix()
OrthoProjectionDefault(cam) ==
    LET pm == LibraryProjection(cam, 1, 1) IN
    [pm EXCEPT !.m22 = Negated(@)]

\* the virtual call cam->getProjectionMatrix(width, height)
getProjectionMatrix(cam, width, height) ==
    IF cam.class = "VECameraOrtho" THEN OrthoProjection(cam, width, height)
    ELSE ProjectiveProjection(cam, width, height)

\* the virtual call cam->getProjectionMatrix()
getProjectionMatrixDefault(cam) ==
    IF cam.class = "VECameraOrtho" THEN OrthoProjectionDefault(cam)
    ELSE ProjectiveProjectionDefault(cam)

\* the width and height the overload without arguments hands to the library
DefaultExtent(cam) ==
    IF cam.class = "VECameraOrtho" THEN <<1, 1>>
    ELSE <<cam.m_aspectRatio, 1>>

GeometryFrame ==
    /\ UNCHANGED <<nodes, m_parent, m_children, m_transform, m_name>>
    /\ UNCHANGED <<lightVars, restVars>>

GetProjectionMatrix(cam, width, height) ==
    /\ lastOp' = [op |-> "getProjectionMatrix", camera |-> cam,
                  extent |-> <<width, height>>, args |-> TRUE,
                  lib |-> LibraryProjection(cam, width, height),
                  pm |-> getProjectionMatrix(cam, width, height)]
    /\ GeometryFrame

GetProjectionMatrixDefault(cam) ==
    /\ lastOp' = [op |-> "getProjectionMatrix", camera |-> cam,
                  extent |-> DefaultExtent(cam), args |-> FALSE,
                  lib |-> LibraryProjection(cam, DefaultExtent(cam)[1],
                                            DefaultExtent(cam)[2]),
                  pm |-> getProjectionMatrixDefault(cam)]
    /\ GeometryFrame

\* VECamera::updateUBO: m_ubo.proj = getProjectionMatrix()
CameraUpdateUBO(cam) ==
    /\ lastOp' = [op |-> "updateUBO", camera |-> cam,
                  extent |-> DefaultExtent(cam), args |-> FALSE,
                  lib |-> LibraryProjection(cam, DefaultExtent(cam)[1],
                                            DefaultExtent(cam)[2]),
                  pm |-> getProjectionMatrixDefault(cam)]
    /\ GeometryFrame

CameraNext ==
    \/ \E cam \in Cameras : \E width \in Dims : \E height \in Dims :
          GetProjectionMatrix(cam, width, height)
    \/ \E cam \in Cameras : GetProjectionMatrixDefault(cam)
    \/ \E cam \in Cameras : CameraUpdateUBO(cam)

SpecCamera == Init /\ [][CameraNext]_vars

\* C19: every getProjectionMatrix overload of the projective and of the
\* orthographic camera negates the Y scale entry and the Z scale entry of
\* the projection of the library, and so does the matrix updateUBO writes
\* to the GPU block of a camera.
C19_SameAxisFlips ==
    lastOp.op \in {"getProjectionMatrix", "updateUBO"} =>
        /\ lastOp.pm.m11 = Negated(lastOp.lib.m11)
        /\ lastOp.pm.m22 = Negated(lastOp.lib.m22)

(***************************************************************************)
(* VESceneNode::lookAt(eye, point, up)                                     *)
(***************************************************************************)
\* glm::vec3 with integer components and a mark for a vector of NaN; a
\* vector stands for its direction, so that a vector and its positive
\* multiples are the same direction
IntVec(x, y, z) == [x |-> x, y |-> y, z |-> z, nan |-> FALSE]

NaN == [x |-> 0, y |-> 0, z |-> 0, nan |-> TRUE]

Zero == IntVec(0, 0, 0)

LookAtVectors == {IntVec(v.x, v.y, v.z) : v \in Vec3}

Minus(a, b) == IntVec(a.x - b.x, a.y - b.y, a.z - b.z)

\* glm::cross; a NaN operand gives NaN
Cross(a, b) ==
    IF a.nan \/ b.nan THEN NaN
    ELSE IntVec(a.y * b.z - a.z * b.y, a.z * b.x - a.x * b.z,
                a.x * b.y - a.y * b.x)

\* glm::normalize: the direction of the vector; the zero vector is divided
\* by its length 0, which gives NaN in every component
Normalize(v) == IF v.nan \/ v = Zero THEN NaN ELSE v

\* fabs(1.0f - fabs(corr)) < 0.00001f for the normalized z and up: the
\* correlation of two integer vectors of the bounded range is that close to
\* 1 or -1 only if they are lined up
LinedUp(z, up) == Cross(z, up) = Zero

\* sc = z.x + z.y + z.z of the normalized z, times the length of the
\* vector it was normalized from
ComponentSum(z) == z.x + z.y + z.z

\* the up vector lookAt works with after the test of the correlation
DecorrelatedUp(z, up) ==
    IF LinedUp(z, up)
        THEN LET sc == ComponentSum(z) IN Normalize(IntVec(sc, sc, sc))
        ELSE up

\* the columns lookAt writes into m_transform
LookAtBasis(eye, point, up) ==
    LET z   == Normalize(Minus(point, eye))
        up1 == DecorrelatedUp(z, Normalize(up))
        x   == Normalize(Cross(up1, z))
        y   == Normalize(Cross(z, x))
    IN [position |-> eye, z |-> z, up |-> up1, x |-> x, y |-> y]

\* the eye positions of the calls
Eyes == {Zero, IntVec(1, 0, 0)}

LookAt(eye, point, up) ==
    /\ lastOp' = [op |-> "lookAt", eye |-> eye, point |-> point,
                  upArgument |-> up,
                  linedUp |-> LinedUp(Minus(point, eye), up),
                  basis |-> LookAtBasis(eye, point, up)]
    /\ GeometryFrame

\* the callers hand over a target other than the eye and a non-zero up
LookAtNext ==
    \E eye \in Eyes : \E point \in LookAtVectors \ {eye} :
        \E up \in LookAtVectors \ {Zero} : LookAt(eye, point, up)

SpecLookAt == Init /\ [][LookAtNext]_vars

\* C20: when the view direction is lined up with the up vector, lookAt
\* replaces up by (s, s, s), s the sum of the components of the view
\* direction; the replacement is not zero and not parallel to the view
\* direction, and the basis holds no NaN.
C20_DecorrelatedUp ==
    (lastOp.op = "lookAt" /\ lastOp.linedUp) =>
        LET z  == lastOp.basis.z
            sc == ComponentSum(z)
        IN /\ sc # 0
           /\ lastOp.basis.up = IntVec(sc, sc, sc)
           /\ Cross(IntVec(sc, sc, sc), z) # Zero
           /\ ~lastOp.basis.x.nan
           /\ ~lastOp.basis.y.nan

(***************************************************************************)
(* VEPointLight::updateShadowCameras                                       *)
(***************************************************************************)
\* the reach m_param[0] of a point light is 1..MaxReach tenths
MaxReach == 4

\* lengths of the point light are kept in tenths: float lnear = 0.1f
PointNear == 1

\* pShadowCamera->m_fov = 91.0f, in degrees
PointFov == 91

Plus(a, b) == IntVec(a.x + b.x, a.y + b.y, a.z + b.z)

Dot(a, b) == a.x * b.x + a.y * b.y + a.z * b.z

\* std::vector<glm::vec3> zaxis
PointZAxis ==
    << IntVec(1, 0, 0), IntVec(0 - 1, 0, 0), IntVec(0, 1, 0),
       IntVec(0, 0 - 1, 0), IntVec(0, 0, 1), IntVec(0, 0, 0 - 1) >>

\* std::vector<glm::vec3> up
PointUp ==
    << IntVec(0, 1, 0), IntVec(0, 1, 0), IntVec(0, 0, 0 - 1),
       IntVec(0, 0, 1), IntVec(0, 1, 0), IntVec(0, 1, 0) >>

\* the body of the loop for shadow camera i (from 1 here) of a point light
\* at pos with reach llength
PointShadowCamera(i, pos, llength) ==
    [m_aspectRatio |-> 1,
     m_fov |-> PointFov,
     m_nearPlane |-> PointNear,
     m_farPlane |-> PointNear + llength,
     m_nearPlaneFraction |-> 0,
     m_farPlaneFraction |-> 100,
     basis |-> LookAtBasis(pos, Plus(pos, PointZAxis[i]), PointUp[i])]

\* the shadow cameras after updateShadowCameras of a point light
PointShadowCameras(pos, llength) ==
    [i \in 1..NumCamsPoint |-> PointShadowCamera(i, pos, llength)]

UpdatePointShadowCameras(pos, llength) ==
    /\ lastOp' = [op |-> "VEPointLight::updateShadowCameras",
                  pos |-> pos, reach |-> llength,
                  cameras |-> PointShadowCameras(pos, llength)]
    /\ GeometryFrame

PointLightNext ==
    \E pos \in LookAtVectors : \E llength \in 1..MaxReach :
        UpdatePointShadowCameras(pos, llength)

SpecPointLight == Init /\ [][PointLightNext]_vars

SignedAxes == {PointZAxis[i] : i \in 1..6}

\* C21: after updateShadowCameras on a point light all 6 shadow cameras
\* have a field of view of 90 degrees, aspect ratio 1, near plane 0.1 and
\* far plane 0.1 + reach, and they look along the 6 distinct signed axis
\* directions, each with an up vector orthogonal to its view direction.
C21_PointShadowCameras ==
    lastOp.op = "VEPointLight::updateShadowCameras" =>
        /\ Len(lastOp.cameras) = 6
        /\ \A i \in 1..Len(lastOp.cameras) :
              LET cam == lastOp.cameras[i] IN
              /\ cam.m_fov = 90
              /\ cam.m_aspectRatio = 1
              /\ cam.m_nearPlane = 1
              /\ cam.m_farPlane = 1 + lastOp.reach
              /\ cam.basis.z \in SignedAxes
              /\ ~cam.basis.up.nan
              /\ Dot(cam.basis.up, cam.basis.z) = 0
        /\ \A i, j \in 1..Len(lastOp.cameras) :
              lastOp.cameras[i].basis.z = lastOp.cameras[j].basis.z => i = j

(***************************************************************************)
(* The GLFW event listener: mouse buttons and mouse moves                  *)
(***************************************************************************)
\* cursor coordinates are 0..MaxCursor
MaxCursor == 1

CursorCoords == 0..MaxCursor

MouseButtons == {"GLFW_MOUSE_BUTTON_RIGHT", "GLFW_MOUSE_BUTTON_LEFT"}

\* what the mouse handlers leave alone
MouseFrame ==
    /\ UNCHANGED <<nodes, m_parent, m_children, m_transform, m_name>>
    /\ UNCHANGED <<lightVars, assetVars, renderVars, heapVars>>
    /\ UNCHANGED <<shotVars, houseVars>>

\* a button handler that keeps the note on the previous cursor position
UsePrevAfterButton_Keep(use) == use

\* m_usePrevCursorPosition = false, in both branches of onMouseButton
UsePrevAfterButton(use) == FALSE

\* onMouseButton(event) with idata1 = button and idata3 = action; the
\* window reports a press of a button that is up and a release of one that
\* is down
OnMouseButton(button, action) ==
    /\ action = "GLFW_PRESS" => button \notin buttonsHeld
    /\ action = "GLFW_RELEASE" => button \in buttonsHeld
    /\ buttonsHeld' = IF action = "GLFW_PRESS"
                          THEN buttonsHeld \cup {button}
                          ELSE buttonsHeld \ {button}
    /\ movesSinceButton' = 0
    /\ m_usePrevCursorPosition' = UsePrevAfterButton(m_usePrevCursorPosition)
    /\ m_rightButtonClicked' =
           IF button = "GLFW_MOUSE_BUTTON_RIGHT"
               THEN action = "GLFW_PRESS"
               ELSE m_rightButtonClicked
    /\ lastOp' = [op |-> "onMouseButton", button |-> button,
                  action |-> action, returned |-> TRUE]
    /\ UNCHANGED <<m_cursorPrevX, m_cursorPrevY>>
    /\ MouseFrame

\* onMouseMove(event) with fdata1 = x and fdata2 = y.  rotated tells
\* whether the camera's multiplyTransform was called, with the rotations
\* by dx and dy.
OnMouseMove(x, y) ==
    LET held == "GLFW_MOUSE_BUTTON_RIGHT" \in buttonsHeld
        report == [op |-> "onMouseMove", x |-> x, y |-> y,
                   held |-> held, movesBefore |-> movesSinceButton,
                   before |-> <<m_rightButtonClicked, m_usePrevCursorPosition,
                                m_cursorPrevX, m_cursorPrevY>>,
                   rotated |-> FALSE, dx |-> 0, dy |-> 0,
                   returned |-> FALSE]
    IN
    /\ movesSinceButton' = IF held /\ movesSinceButton < 2
                               THEN movesSinceButton + 1
                               ELSE movesSinceButton
    /\ IF ~m_rightButtonClicked
       THEN /\ lastOp' = report
            /\ UNCHANGED <<m_usePrevCursorPosition, m_cursorPrevX,
                           m_cursorPrevY>>
       ELSE IF ~m_usePrevCursorPosition
       THEN /\ m_cursorPrevX' = x
            /\ m_cursorPrevY' = y
            /\ m_usePrevCursorPosition' = TRUE
            /\ lastOp' = [report EXCEPT !.returned = TRUE]
       ELSE /\ m_cursorPrevX' = x
            /\ m_cursorPrevY' = y
            /\ lastOp' = [report EXCEPT !.rotated = TRUE,
                                        !.dx = x - m_cursorPrevX,
                                        !.dy = y - m_cursorPrevY]
            /\ UNCHANGED m_usePrevCursorPosition
    /\ UNCHANGED <<m_rightButtonClicked, buttonsHeld>>
    /\ MouseFrame

MouseNext ==
    \/ \E button \in MouseButtons :
          \E action \in {"GLFW_PRESS", "GLFW_RELEASE"} :
              OnMouseButton(button, action)
    \/ \E x \in CursorCoords : \E y \in CursorCoords : OnMouseMove(x, y)

SpecMouse == Init /\ [][MouseNext]_vars

C23_ParentAgreesWithChildren ==
    /\ \A N \in nodes : \A P \in nodes :
          (m_parent[N] = P) <=> InSeq(N, m_children[P])
    /\ lastOp.op = "removeChild" =>
          /\ m_parent[lastOp.node] = Null
          /\ getWorldTransform(lastOp.node) = getTransform(lastOp.node)

(***************************************************************************)
(* VESceneManager::deleteSceneNodeAndChildren(name)                        *)
(***************************************************************************)
\* the scene nodes that are constructed and not freed
Live == nodes \ deleted

\* std::map::operator[] as the table it leaves: an absent key is entered
\* with a null pointer
Subscripted(map, key) ==
    IF key \in DOMAIN map THEN map ELSE Store(map, key, Null)

\* std::map::erase(key)
Erased(map, key) == [k \in (DOMAIN map) \ {key} |-> map[k]]

\* createSceneNodeList(pObject, namelist): the name of the node, then the
\* lists of its children in the order of m_children
RECURSIVE SceneNodeList(_, _, _)
SceneNodeList(ch, pObject, fuel) ==
    IF fuel = 0 THEN <<>>
    ELSE LET RECURSIVE OfChildren(_)
             OfChildren(i) ==
                 IF i > Len(ch[pObject]) THEN <<>>
                 ELSE SceneNodeList(ch, ch[pObject][i], fuel - 1)
                          \o OfChildren(i + 1)
         IN <<m_name[pObject]>> \o OfChildren(1)

createSceneNodeList(pObject) ==
    SceneNodeList(m_children, pObject, Cardinality(nodes))

\* The loop of deleteSceneNodeAndChildren over namelist, from the i-th
\* name: the node under the name is looked up, its entry erased and the
\* node freed.  D is the table and the set of freed nodes.
RECURSIVE DeleteLoop(_, _, _)
DeleteLoop(D, namelist, i) ==
    IF i > Len(namelist) THEN D
    ELSE LET pObject == Lookup(D.table, namelist[i])
         IN DeleteLoop([table |-> Erased(D.table, namelist[i]),
                        freed |-> D.freed \cup ({pObject} \ {Null})],
                       namelist, i + 1)

\* the light list after the deletion: the function does not touch m_lights
LightsAfterDelete(list, freed) == list

DeleteSceneNodeAndChildren(name) ==
    LET pObject == Lookup(m_sceneNodes, name) IN
    IF pObject = Null
    THEN /\ m_sceneNodes' = Subscripted(m_sceneNodes, name)
         /\ lastOp' = [op |-> "deleteSceneNodeAndChildren", name |-> name,
                       node |-> Null, before |-> m_sceneNodes,
                       freed |-> {}]
         /\ UNCHANGED <<nodes, m_parent, m_children, m_transform, m_name>>
         /\ UNCHANGED <<lightType, m_shadowCameras, m_lights, nextCam>>
         /\ UNCHANGED <<deleted, assetVars, renderVars, listenerVars>>
    ELSE LET D == DeleteLoop([table |-> m_sceneNodes, freed |-> {}],
                             createSceneNodeList(pObject), 1)
         IN /\ m_children' =
                   IF m_parent[pObject] # Null
                   THEN [m_children EXCEPT ![m_parent[pObject]] =
                            RemoveChildList(m_children[m_parent[pObject]],
                                            pObject)]
                   ELSE m_children
            /\ m_sceneNodes' = D.table
            /\ deleted' = deleted \cup D.freed
            /\ m_lights' = LightsAfterDelete(m_lights, D.freed)
            /\ lastOp' = [op |-> "deleteSceneNodeAndChildren",
                          name |-> name, node |-> pObject,
                          before |-> m_sceneNodes, freed |-> D.freed]
            /\ UNCHANGED <<nodes, m_parent, m_transform, m_name>>
            /\ UNCHANGED <<lightType, m_shadowCameras, nextCam>>
            /\ UNCHANGED <<assetVars, renderVars, listenerVars>>

\* the names under which nodes are deleted: those of the scene nodes and of
\* the lights, registered or not
DeleteNames == EntityNames \cup {ObjectName(k) : k \in 1..MaxLights}

(***************************************************************************)
(* SpecDelete: lights and scene nodes are created below live nodes, live   *)
(* lights are switched on, and nodes are deleted by name.                  *)
(***************************************************************************)
DeleteNext ==
    \/ \E p \in Live \cup {Null} : CreateLight("dir", p)
    \/ \E name \in EntityNames : \E p \in Live \cup {Null} :
          CreateSceneNode(name, Identity, p)
    \/ \E l \in lights \cap Live : SwitchOnLight(l)
    \/ \E name \in DeleteNames : DeleteSceneNodeAndChildren(name)

SpecDelete == Init /\ [][DeleteNext]_vars

\* C24: every light in the active light list is a live node that is
\* registered in the node table; in particular after
\* deleteSceneNodeAndChildren on a switched-on light or on one of its
\* ancestors no freed object is left in m_lights.
C24_ActiveLightsLive ==
    \A i \in 1..Len(m_lights) :
        /\ m_lights[i] \in Live
        /\ \E k \in DOMAIN m_sceneNodes : m_sceneNodes[k] = m_lights[i]

\* C26: the node table never maps a name to a null pointer, and
\* deleteSceneNodeAndChildren on a name that is not registered leaves the
\* table as it was.
C26_NoNullEntry ==
    /\ \A k \in DOMAIN m_sceneNodes : m_sceneNodes[k] # Null
    /\ (lastOp.op = "deleteSceneNodeAndChildren" /\ lastOp.node = Null)
           => m_sceneNodes = lastOp.before

\* C25: the active light list contains no light twice, and right after
\* switchOffLight(L) the list does not contain L while every other light
\* is in it exactly as often as before the call.
C25_NoLightTwice ==
    [][ /\ \A l \in NodeIds : Count(l, m_lights') <= 1
        /\ lastOp'.op = "switchOffLight" =>
              /\ ~InSeq(lastOp'.node, m_lights')
              /\ \A o \in NodeIds \ {lastOp'.node} :
                    Count(o, m_lights') = Count(o, m_lights) ]_vars

\* C27: the parent relation is acyclic after any sequence of addChild
\* calls: the parent chain of every node ends at a node without parent, so
\* that getWorldTransform returns, and no node is below itself in the child
\* lists, so that update and createSceneNodeList return.
C27_ParentAcyclic ==
    \A n \in nodes :
        /\ ChainEnds(n, Cardinality(NodeIds))
        /\ getWorldTransform(n) # NoReturn
        /\ n \notin Descendants(n)

(***************************************************************************)
(* VESceneManager::createCubemap(entityName, basedir, filename)            *)
(***************************************************************************)
\* STANDARD_MESH_INVCUBE, the key of the mesh that initSceneManager loads
\* from the standard directory; file 1 stands for that file here
StandardMeshInvcube == Slash(Slash(BaseDir, FileName(1)), <<"cube">>)

\* glm::scale(glm::vec3(10000.0f, 10000.0f, 10000.0f)) in the arithmetic of
\* the transforms
CubemapScale == <<0, 0, 0, 0>>

\* the material table at the throw for a cube map that cannot be loaded:
\* m_materials[filekey] = pMat is done before gli::load
MaterialsAtThrow(table, filekey, pMat) == Store(table, filekey, pMat)

\* loads tells whether gli::load can read the file.  The standard meshes
\* are loaded before any cube map is created.
CreateCubemap(entityName, f, loads) ==
    LET filekey == Slash(BaseDir, FileName(f))
        pMesh == Lookup(m_meshes, StandardMeshInvcube)
        found == Lookup(m_materials, filekey)
        pMat == IF found = Null THEN nextMaterial ELSE found
        E == createEntity(SceneState, entityName, pMesh, pMat, Identity, Null)
        S == SetTransformValue(E.tree.tr, E.ret, CubemapScale)
    IN /\ pMesh # Null
       /\ IF found = Null /\ ~loads
          THEN /\ m_materials' = MaterialsAtThrow(m_materials, filekey, pMat)
               /\ nextMaterial' = nextMaterial + 1
               /\ lastOp' = [op |-> "createCubemap", file |-> f,
                             failed |-> TRUE]
               /\ UNCHANGED <<nodes, m_parent, m_children, m_transform,
                              m_name>>
               /\ UNCHANGED <<lightVars, m_meshes, nextMesh, m_pMesh,
                              m_pMaterial, firstResult>>
          ELSE /\ Cardinality(E.tree.nodes) <= MaxNodes
               /\ m_materials' = IF found = Null
                                     THEN Store(m_materials, filekey, pMat)
                                     ELSE m_materials
               /\ nextMaterial' = IF found = Null THEN nextMaterial + 1
                                   ELSE nextMaterial
               /\ SetTree([E.tree EXCEPT !.tr = S])
               /\ m_sceneNodes' = E.table
               /\ m_pMesh' = E.mesh
               /\ m_pMaterial' = E.mat
               /\ lastOp' = [op |-> "createCubemap", file |-> f,
                             failed |-> FALSE, node |-> E.ret,
                             loaded |-> (found = Null)]
               /\ UNCHANGED <<lightType, m_shadowCameras, m_lights, nextCam>>
               /\ UNCHANGED <<m_meshes, nextMesh, firstResult>>
       /\ UNCHANGED <<renderVars, listenerVars, heapVars>>

(***************************************************************************)
(* SpecCubemap: asset files are loaded with loadAssets and loadModel and   *)
(* sky boxes are created from cube map files; each file can be readable or *)
(* not at each call.                                                       *)
(***************************************************************************)
CubemapNext ==
    \/ \E f \in Files, ok \in BOOLEAN : LoadAssets(f, ok)
    \/ \E f \in Files, ok \in BOOLEAN : LoadModel(<<"e">>, f, Null, ok)
    \/ \E e \in EntityNames, f \in Files, ok \in BOOLEAN :
          CreateCubemap(e, f, ok)

SpecCubemap == Init /\ [][CubemapNext]_vars

\* C28: a call of loadAssets, loadModel or createCubemap that fails leaves
\* the mesh table, the material table and the node table as they were
\* before the call.
C28_FailedLoadKeepsTables ==
    [][ (/\ lastOp'.op \in {"loadAssets", "loadModel", "createCubemap"}
         /\ lastOp'.failed)
           => /\ m_meshes' = m_meshes
              /\ m_materials' = m_materials
              /\ m_sceneNodes' = m_sceneNodes ]_vars

(***************************************************************************)
(* VEEventListenerGLFW: the keyboard, the screenshots and the houses       *)
(***************************************************************************)
MaxShots == 3
MaxMoves == 3
MaxBack == 12

\* the houses in a row: two rounds over the 7 building models
HousesPerRow == 14

\* offset += 12.0f in createHouses, zOffsetS += 12.0f in moveHousesToFront
HouseSpacing == 12

\* if (distanceTraveledSinceLastMove > 12.0f)
MoveThreshold == 12

\* the x of the left and of the right row
LeftX == 0 - 10
RightX == 10

\* The loop of createHouses over the shuffled model numbers, from the i-th:
\* the house gets the next name, is put at (x, 0, offset) and pushed onto
\* the row.  Which building model a house shows does not enter the state.
RECURSIVE HouseLoop(_, _, _)
HouseLoop(H, x, i) ==
    IF i > HousesPerRow THEN H
    ELSE HouseLoop([row    |-> Append(H.row, H.id),
                    pos    |-> Store(H.pos, H.id, <<x, 0, H.offset>>),
                    id     |-> H.id + 1,
                    offset |-> H.offset + HouseSpacing], x, i + 1)

\* zOffsetS = offset + 12, after the loop of the left row
ZOffsetAfterLeft(offset) == offset + 12

\* the state of the listener's houses as one value
HouseState ==
    [left |-> housesLeft, right |-> housesRight, pos |-> housePos,
     zOffsetS |-> zOffsetS]

createHouses(H, firstID) ==
    LET L == HouseLoop([row |-> H.left, pos |-> H.pos, id |-> firstID,
                        offset |-> 0], LeftX, 1)
        R == HouseLoop([row |-> H.right, pos |-> L.pos, id |-> L.id,
                        offset |-> 0], RightX, 1)
    IN [left |-> L.row, right |-> R.row, pos |-> R.pos,
        zOffsetS |-> ZOffsetAfterLeft(L.offset), id |-> R.id]

moveHousesToFront(H) ==
    LET leftHouse == H.left[1]
        rightHouse == H.right[1]
    IN [left |-> Append(Tail(H.left), leftHouse),
        right |-> Append(Tail(H.right), rightHouse),
        pos |-> [H.pos EXCEPT ![leftHouse] = <<LeftX, 0, H.zOffsetS>>,
                              ![rightHouse] = <<RightX, 0, H.zOffsetS>>],
        zOffsetS |-> H.zOffsetS + HouseSpacing]

SetHouses(H) ==
    /\ housesLeft' = H.left
    /\ housesRight' = H.right
    /\ housePos' = H.pos
    /\ zOffsetS' = H.zOffsetS

\* what the listener's keyboard and frame handlers leave alone
ListenerFrame ==
    /\ UNCHANGED <<nodes, m_parent, m_children, m_transform, m_name>>
    /\ UNCHANGED <<lightVars, assetVars, heapVars, mouseVars>>

\* createHouses(), called once when the listener is set up
CreateHouses ==
    LET H == createHouses(HouseState, houseNamesID) IN
    /\ Len(housesLeft) = 0
    /\ SetHouses(H)
    /\ houseNamesID' = H.id
    /\ lastOp' = [op |-> "createHouses"]
    /\ UNCHANGED <<distanceTraveledSinceLastMove, shotVars, renderVars>>
    /\ ListenerFrame

\* getEnginePointer()->end()
EngineEnd ==
    /\ m_end_running' = TRUE
    /\ UNCHANGED <<pc, m_currentFrame, imageIndex, m_commandBuffers,
                   m_inFlightFences, m_framebufferResized, recordCount,
                   unobserved, everRecreated, recordedLights,
                   m_subrenderOverlay, m_overlaySemaphores,
                   submittedThisFrame>>

Keys == {"GLFW_KEY_ESCAPE", "GLFW_KEY_P", "GLFW_KEY_O", "GLFW_KEY_W",
         "GLFW_KEY_S", "GLFW_KEY_Q", "GLFW_KEY_E", "GLFW_KEY_A"}

\* The z of addVec = dt * speed * translate for a key that moves the
\* camera; step is dt * speed times the z of the camera's forward vector.
AddVecZ(key, step) ==
    CASE key = "GLFW_KEY_W" -> step
      [] key = "GLFW_KEY_S" -> 0 - step
      [] OTHER -> 0

\* onKeyboard(event) for the key event.idata1 with action event.idata3.  The
\* transforms of the camera and of its parent are not part of the state.
OnKeyboard(key, action, step) ==
    LET report == [op |-> "onKeyboard", key |-> key, action |-> action,
                   returned |-> FALSE, moved |-> FALSE,
                   leftBefore |-> housesLeft, rightBefore |-> housesRight]
    IN
    /\ ListenerFrame
    /\ IF key = "GLFW_KEY_ESCAPE"
       THEN /\ EngineEnd
            /\ lastOp' = [report EXCEPT !.returned = TRUE]
            /\ UNCHANGED <<shotVars, houseVars>>
       ELSE /\ UNCHANGED renderVars
            /\ IF action = "GLFW_RELEASE"
               THEN /\ lastOp' = report
                    /\ UNCHANGED <<shotVars, houseVars>>
               ELSE IF key = "GLFW_KEY_P"
               THEN /\ m_makeScreenshot' = TRUE
                    /\ lastOp' = report
                    /\ UNCHANGED <<m_makeScreenshotDepth, m_numScreenshot,
                                   poolTasks, written, houseVars>>
               ELSE IF key = "GLFW_KEY_O"
               THEN /\ m_makeScreenshotDepth' = TRUE
                    /\ lastOp' = report
                    /\ UNCHANGED <<m_makeScreenshot, m_numScreenshot,
                                   poolTasks, written, houseVars>>
               ELSE IF key \in {"GLFW_KEY_W", "GLFW_KEY_S", "GLFW_KEY_Q",
                                "GLFW_KEY_E"}
               THEN LET d == distanceTraveledSinceLastMove
                                 + AddVecZ(key, step)
                    IN /\ d >= 0 - MaxBack
                       /\ IF d > MoveThreshold
                          THEN /\ Len(housesLeft) > 0
                               /\ zOffsetS < (HousesPerRow + 1 + MaxMoves)
                                                 * HouseSpacing
                               /\ distanceTraveledSinceLastMove' = 0
                               /\ SetHouses(moveHousesToFront(HouseState))
                               /\ lastOp' = [report EXCEPT !.returned = TRUE,
                                                           !.moved = TRUE]
                          ELSE /\ distanceTraveledSinceLastMove' = d
                               /\ lastOp' = [report EXCEPT !.returned = TRUE]
                               /\ UNCHANGED <<housesLeft, housesRight,
                                              housePos, zOffsetS>>
                       /\ UNCHANGED <<houseNamesID, shotVars>>
               ELSE /\ lastOp' = report
                    /\ UNCHANGED <<shotVars, houseVars>>

\* The file the pool task writes: the lambda captures this and reads
\* m_numScreenshot when it runs.
TaskFile(task, num) == num - 1

\* onFrameEnded(event).  early tells whether the thread pool runs the task
\* of the colour screenshot before the handler goes on.
OnFrameEnded(early) ==
    LET num1 == IF m_makeScreenshot THEN m_numScreenshot + 1
                ELSE m_numScreenshot
        num2 == IF m_makeScreenshotDepth THEN num1 + 1 ELSE num1
        task == [kind |-> "color", request |-> m_numScreenshot]
        colour == IF m_makeScreenshot /\ early
                  THEN {[kind |-> "color", request |-> m_numScreenshot,
                         file |-> TaskFile(task, num1)]}
                  ELSE {}
        depth == IF m_makeScreenshotDepth
                 THEN {[kind |-> "depth", request |-> num1, file |-> num1]}
                 ELSE {}
    IN /\ num2 <= MaxShots
       /\ m_numScreenshot' = num2
       /\ poolTasks' = IF m_makeScreenshot /\ ~early
                       THEN poolTasks \cup {task} ELSE poolTasks
       /\ written' = written \cup colour \cup depth
       /\ m_makeScreenshot' = FALSE
       /\ m_makeScreenshotDepth' = FALSE
       /\ lastOp' = [op |-> "onFrameEnded", color |-> m_makeScreenshot,
                     depth |-> m_makeScreenshotDepth, early |-> early]
       /\ UNCHANGED <<houseVars, renderVars>>
       /\ ListenerFrame

\* a worker of the thread pool runs a submitted task
RunPoolTask(task) ==
    /\ task \in poolTasks
    /\ poolTasks' = poolTasks \ {task}
    /\ written' = written \cup
           {[kind |-> task.kind, request |-> task.request,
             file |-> TaskFile(task, m_numScreenshot)]}
    /\ lastOp' = [op |-> "task", request |-> task.request]
    /\ UNCHANGED <<m_makeScreenshot, m_makeScreenshotDepth, m_numScreenshot,
                   houseVars, renderVars>>
    /\ ListenerFrame

(***************************************************************************)
(* SpecScreenshot: the keys P, O and ESC are pressed and released, frames  *)
(* end, and the thread pool runs its tasks at any time.                    *)
(***************************************************************************)
ScreenshotNext ==
    \/ \E key \in {"GLFW_KEY_ESCAPE", "GLFW_KEY_P", "GLFW_KEY_O"} :
          \E action \in {"GLFW_PRESS", "GLFW_RELEASE"} :
             OnKeyboard(key, action, 0)
    \/ \E early \in BOOLEAN : OnFrameEnded(early)
    \/ \E task \in poolTasks : RunPoolTask(task)

SpecScreenshot == Init /\ [][ScreenshotNext]_vars

\* C29: every screenshot request is written to a file of its own, whose
\* number is the value of the counter at the time the request was handled
\* in onFrameEnded, whenever the task of the thread pool runs.
C29_OwnFile ==
    /\ \A w \in written : w.file = w.request
    /\ \A v \in written : \A w \in written :
          v.request # w.request => v.file # w.file

\* the steps dt * speed * forward.z of the key events
Steps == {4, 13}

(***************************************************************************)
(* SpecHouses: the houses are created and keys are pressed and released.   *)
(***************************************************************************)
HousesNext ==
    \/ CreateHouses
    \/ \E key \in Keys \ {"GLFW_KEY_ESCAPE", "GLFW_KEY_P", "GLFW_KEY_O"} :
          \E action \in {"GLFW_PRESS", "GLFW_RELEASE"} :
             \E step \in Steps :
                /\ Len(housesLeft) > 0
                /\ OnKeyboard(key, action, step)

SpecHouses == Init /\ [][HousesNext]_vars

\* the z of the i-th house of a row
HouseZ(row, i) == housePos[row[i]][3]

\* the houses of a row as a set
RowSet(row) == {row[i] : i \in 1..Len(row)}

\* C30: after createHouses and any number of moveHousesToFront calls each
\* row keeps its 14 houses (a call rotates each list by one), consecutive
\* houses of a row differ in z by exactly 12, and the left and the right
\* house at the same index have the same z.
C30_HouseRows ==
    Len(housesLeft) > 0 =>
        /\ Len(housesLeft) = HousesPerRow /\ Len(housesRight) = HousesPerRow
        /\ RowSet(housesLeft) = 0..(HousesPerRow - 1)
        /\ RowSet(housesRight) = HousesPerRow..(2 * HousesPerRow - 1)
        /\ (lastOp.op = "onKeyboard" /\ lastOp.moved) =>
              /\ housesLeft = Append(Tail(lastOp.leftBefore),
                                     Head(lastOp.leftBefore))
              /\ housesRight = Append(Tail(lastOp.rightBefore),
                                      Head(lastOp.rightBefore))
        /\ \A i \in 1..(HousesPerRow - 1) :
              /\ HouseZ(housesLeft, i + 1) - HouseZ(housesLeft, i)
                     = HouseSpacing
              /\ HouseZ(housesRight, i + 1) - HouseZ(housesRight, i)
                     = HouseSpacing
        /\ \A i \in 1..HousesPerRow :
              HouseZ(housesLeft, i) = HouseZ(housesRight, i)

====
